---- MODULE Spec2Model ----
(***************************************************************************)
(* solliq - solidus and liquidus parameterizations for geomaterials.       *)
(*                                                                         *)
(* The melting-curve functions of solliq.py are float computations.  A     *)
(* Python float operation returns the representable number nearest to the  *)
(* exact result.  The model keeps exactly that structure with a binary     *)
(* floating-point format of 27 significant bits instead of 53: a number is *)
(* a record [m, e] standing for m * 2^e with 2^26 <= |m| < 2^27 (or        *)
(* m = 0), and every operation rounds its exact result to the nearest such *)
(* number, ties to even.  Raised exceptions are the records with m = 0,    *)
(* e # 0.                                                                  *)
(***************************************************************************)
EXTENDS Integers, Sequences, FiniteSets, TLC

(***************************************************************************)
(* Float arithmetic                                                        *)
(***************************************************************************)
MantLo == 2 ^ 26
MantHi == 2 ^ 27

Zero == [m |-> 0, e |-> 0]
ZeroDivisionError == [m |-> 0, e |-> 1]
ValueError == [m |-> 0, e |-> 2]
NameError == [m |-> 0, e |-> 3]
Unbound == [m |-> 0, e |-> 4]

IsErr(a) == a.m = 0 /\ a.e # 0
IsNum(a) == ~IsErr(a)

Abs(n) == IF n < 0 THEN 0 - n ELSE n
Min(i, j) == IF i < j THEN i ELSE j

\* <<q, r>> with a * b = q * c + r and 0 <= r < c, without leaving 32 bits
RECURSIVE MulDivQR(_, _, _)
MulDivQR(a, b, c) ==
    IF b = 0 THEN <<0, 0>>
    ELSE LET h == MulDivQR(a, b \div 8, c)
             d == b % 8
             t == 8 * h[2] + d * (a % c)
         IN  <<8 * h[1] + d * (a \div c) + t \div c, t % c>>

\* the float nearest to (N + rn/rd) * 2^e, for N >= 0 and 0 <= rn < rd;
\* a small N is brought up eight bits at a time, then bit by bit
RECURSIVE RoundNF(_, _, _, _)
Widen(N, qr, rd, e) == RoundNF(N * 256 + qr[1], qr[2], rd, e - 8)
RoundNF(N, rn, rd, e) ==
    IF N = 0 /\ rn = 0 THEN Zero
    ELSE IF N >= MantHi THEN RoundNF(N \div 2, (N % 2) * rd + rn, 2 * rd, e + 1)
    ELSE IF N < MantLo \div 256 THEN Widen(N, MulDivQR(rn, 256, rd), rd, e)
    ELSE IF N < MantLo THEN RoundNF(N * 2 + (2 * rn) \div rd, (2 * rn) % rd, rd, e - 1)
    ELSE LET up == 2 * rn > rd \/ (2 * rn = rd /\ N % 2 = 1)
             M == IF up THEN N + 1 ELSE N
         IN  IF M = MantHi THEN [m |-> MantLo, e |-> e + 1] ELSE [m |-> M, e |-> e]

FNeg(a) == IF IsErr(a) THEN a ELSE [m |-> 0 - a.m, e |-> a.e]
Signed(neg, a) == IF neg THEN FNeg(a) ELSE a

\* the float literal m * 10^e, for -8 <= e <= 0
Lit(m, e) ==
    Signed(m < 0, RoundNF(Abs(m) \div 10 ^ (0 - e), Abs(m) % 10 ^ (0 - e), 10 ^ (0 - e), 0))
I(n) == Lit(n, 0)

\* the float nearest to (qr[1] + qr[2]/rd) * 2^e, negated if neg
RoundQR(neg, qr, rd, e) == Signed(neg, RoundNF(qr[1], qr[2], rd, e))

FMul(a, b) ==
    IF IsErr(a) THEN a
    ELSE IF IsErr(b) THEN b
    ELSE IF a.m = 0 \/ b.m = 0 THEN Zero
    ELSE RoundQR((a.m < 0) # (b.m < 0), MulDivQR(Abs(a.m), Abs(b.m), MantLo),
                 MantLo, a.e + b.e + 26)

FDiv(a, b) ==
    IF IsErr(a) THEN a
    ELSE IF IsErr(b) THEN b
    ELSE IF b.m = 0 THEN ZeroDivisionError
    ELSE IF a.m = 0 THEN Zero
    ELSE RoundQR((a.m < 0) # (b.m < 0), MulDivQR(Abs(a.m), MantHi, Abs(b.m)),
                 Abs(b.m), a.e - b.e - 27)

\* |x| >= |y| for nonzero floats
Outweighs(x, y) == x.e > y.e \/ (x.e = y.e /\ Abs(x.m) >= Abs(y.m))

\* x + y for |x| >= |y| > 0, where |y.m| = qb * P + rb on the scale of x.m
\* (rb = 1, qb = 0 stand for a y below the last digit of x)
AddAligned(x, same, qb, rb, P) ==
    Signed(x.m < 0,
           RoundNF(Abs(x.m) + (IF same THEN qb ELSE IF rb = 0 THEN 0 - qb ELSE 0 - qb - 1),
                   IF same \/ rb = 0 THEN rb ELSE P - rb, P, x.e))

AddScaled(x, y, far, P) ==
    AddAligned(x, (x.m < 0) = (y.m < 0),
               IF far THEN 0 ELSE Abs(y.m) \div P, IF far THEN 1 ELSE Abs(y.m) % P, P)

AddOrdered(x, y) == AddScaled(x, y, x.e - y.e > 27, 2 ^ Min(x.e - y.e, 27))

FAdd(a, b) ==
    IF IsErr(a) THEN a
    ELSE IF IsErr(b) THEN b
    ELSE IF a.m = 0 THEN b
    ELSE IF b.m = 0 THEN a
    ELSE AddOrdered(IF Outweighs(a, b) THEN a ELSE b, IF Outweighs(a, b) THEN b ELSE a)

FSub(a, b) == FAdd(a, FNeg(b))

FLt(a, b) == FSub(a, b).m < 0
FLe(a, b) == FSub(a, b).m <= 0
FGt(a, b) == FLt(b, a)
FGe(a, b) == FLe(b, a)
FAbs(a) == Signed(a.m < 0, a)
FMin(a, b) == IF FLt(b, a) THEN b ELSE a
FMax(a, b) == IF FGt(b, a) THEN b ELSE a

\* m / P rounded to the nearest integer, halves away from zero
HalfUp(m, P) == (IF m < 0 THEN -1 ELSE 1) * ((2 * Abs(m) + P) \div (2 * P))

\* the integer nearest to a float of moderate size
RoundInt(a) ==
    IF a.m = 0 THEN 0
    ELSE IF a.e >= 0 THEN a.m * 2 ^ a.e
    ELSE IF a.e < -27 THEN 0
    ELSE HalfUp(a.m, 2 ^ (0 - a.e))

(***************************************************************************)
(* math.log, math.exp, math.atan and ** of the standard library            *)
(***************************************************************************)
LN2 == Lit(69314718, -8)
PI == Lit(314159265, -8)
\* ln(1), ln(2)
LnInt == <<Zero, LN2>>

\* Horner accumulation of sum_k z2^k / (2k+1), from the last term down to k = 0
RECURSIVE AtanhSum(_, _, _)
AtanhNext(z2, n, a) == IF IsErr(a) \/ n = 0 THEN a ELSE AtanhSum(z2, n - 1, a)
AtanhSum(z2, n, acc) == AtanhNext(z2, n, FAdd(FDiv(I(1), I(2 * n + 1)), FMul(z2, acc)))

\* 2 * atanh(z) = ln((1+z)/(1-z)) for |z| <= 0.2
Ln1p(z) == FMul(I(2), FMul(z, AtanhSum(FMul(z, z), 6, Zero)))

\* ln(f * 2^k) for 1 <= f < 2 and c the integer nearest to f
LnAround(f, c, k) ==
    FAdd(FAdd(FMul(I(k), LN2), LnInt[c]), Ln1p(FDiv(FSub(f, I(c)), FAdd(f, I(c)))))

log(x) ==
    IF IsErr(x) THEN x
    ELSE IF x.m <= 0 THEN ValueError
    ELSE LnAround([m |-> x.m, e |-> -26], (x.m + MantLo \div 2) \div MantLo, x.e + 26)

\* Horner accumulation of sum_k r^k / k!, from the last term down to k = 1
RECURSIVE ExpSum(_, _, _)
ExpNext(r, n, a) == IF IsErr(a) \/ n = 1 THEN a ELSE ExpSum(r, n - 1, a)
ExpSum(r, n, acc) == ExpNext(r, n, FAdd(I(1), FDiv(FMul(r, acc), I(n))))

\* s * 2^k
Shift(s, k) == IF s.m = 0 THEN s ELSE [m |-> s.m, e |-> s.e + k]

\* e^y = 2^k * e^(y - k ln 2)
ExpReduced(y, k) == Shift(ExpSum(FSub(y, FMul(I(k), LN2)), 12, I(1)), k)

\* math.exp; below the least positive float, e^-745.14, the result is 0.0
exp(y) ==
    IF IsErr(y) THEN y
    ELSE IF FLt(y, I(-746)) THEN Zero
    ELSE ExpReduced(y, RoundInt(FDiv(y, LN2)))

\* Horner accumulation of sum_k (-t2)^k / (2k+1), from the last term down to k = 0
RECURSIVE AtanSum(_, _, _)
AtanNext(t2, n, a) == IF IsErr(a) \/ n = 0 THEN a ELSE AtanSum(t2, n - 1, a)
AtanSum(t2, n, acc) == AtanNext(t2, n, FSub(FDiv(I(1), I(2 * n + 1)), FMul(t2, acc)))

AtanSmall(t) == FMul(t, AtanSum(FMul(t, t), 8, Zero))

\* atan(x) = atan(c) + atan((x - c) / (1 + x c))
AtanAround(x, c, atanc) ==
    FAdd(atanc, AtanSmall(FDiv(FSub(x, c), FAdd(I(1), FMul(x, c)))))

\* arctangent on [0, 1] by the addition formula around 0, 1/2 and 1
AtanUnit(x) ==
    AtanAround(x,
               IF FLt(x, Lit(25, -2)) THEN Zero
               ELSE IF FLt(x, Lit(75, -2)) THEN Lit(5, -1) ELSE I(1),
               IF FLt(x, Lit(25, -2)) THEN Zero
               ELSE IF FLt(x, Lit(75, -2)) THEN Lit(46364761, -8) ELSE FDiv(PI, I(4)))

\* atan(x) = pi/2 - atan(1/x) for x > 1
Complement(inv, t) == IF inv THEN FSub(FDiv(PI, I(2)), t) ELSE t
AtanPos(x) == Complement(FGt(x, I(1)), AtanUnit(IF FGt(x, I(1)) THEN FDiv(I(1), x) ELSE x))

atan(x) == IF IsErr(x) THEN x ELSE Signed(x.m < 0, AtanPos(Signed(x.m < 0, x)))

\* x ** c for a float exponent c
Pow(x, c) ==
    IF IsErr(x) THEN x
    ELSE IF x.m < 0 THEN ValueError
    ELSE IF x.m = 0 THEN Zero
    ELSE exp(FMul(c, log(x)))

(***************************************************************************)
(* The branch conditions of the piecewise evaluators                       *)
(***************************************************************************)
\* a slip that moves the transition from forsterite to pyrope to 20 GPa
pxfopy_late == I(20)
pxfopy == Lit(13244, -3)
pmaxfit == Lit(1464, -2)
pgbu == I(30)

\* a slip that leaves the weight unclamped
wpc_unclamped(p) == FSub(p, I(23))

\* the weight of periclase in Tliq_per: min(max(0.,p-23),1.)
wpc(p) == FMin(FMax(Zero, FSub(p, I(23))), I(1))

\* the branch that the if/elif/else chain of the evaluator fn takes at the
\* pressure p, the branches being numbered by rising pressure
Branch(fn, p) ==
    CASE fn = "Tsol_Earth" ->
            IF FLt(p, I(10)) THEN 1
            ELSE IF FGe(p, I(10)) /\ FLt(p, Lit(235, -1)) THEN 2 ELSE 3
      [] fn = "Tsol_CMAS" -> IF FLt(p, Lit(235, -1)) THEN 1 ELSE 2
      [] fn = "Tsol_Mars" -> IF FLt(p, I(23)) THEN 1 ELSE 2
      [] fn = "Tsol_chon" -> IF FLt(p, Lit(275, -1)) THEN 1 ELSE 2
      [] fn = "Tliq_per" ->
            IF FGt(p, pxfopy)
            THEN IF wpc(p) = I(1) THEN 4 ELSE IF FGt(wpc(p), Zero) THEN 3 ELSE 2
            ELSE 1
      [] fn = "Tliqfo" -> IF FGt(p, pmaxfit) THEN 2 ELSE 1
      [] fn = "Tliqb_per" -> IF FLt(p, Lit(2276, -2)) THEN 1 ELSE 2
      [] fn = "Tsol_bas" ->
            IF FLt(p, I(3)) THEN 1
            ELSE IF FGe(p, I(3)) /\ FLt(p, I(26)) THEN 2
            ELSE IF FGe(p, I(26)) /\ FLt(p, pgbu) THEN 3 ELSE 4
      [] fn = "Tliq_bas" ->
            IF FLt(p, I(1)) THEN 1
            ELSE IF FLt(p, Lit(3728, -3)) THEN 2
            ELSE IF FLt(p, I(24)) THEN 3 ELSE 4
      [] fn = "Tliqb_bas" ->
            IF FLt(p, Lit(88, -2)) THEN 1
            ELSE IF FLt(p, Lit(312, -2)) THEN 2
            ELSE IF FLt(p, I(22)) THEN 3 ELSE 4
      [] fn = "Tliq_Fe" ->
            IF FLe(p, Lit(8044, -3)) THEN 1
            ELSE IF FLe(p, Lit(8706, -2)) THEN 2 ELSE 3

(***************************************************************************)
(* Peridotite solidus                                                      *)
(***************************************************************************)
\* the formula of branch k of Tsol_Earth
Tsol_Earth_seg(k, p) ==
    IF k = 1
    THEN FAdd(Lit(135881061, -5),
              FMul(FSub(Lit(132899012, -6), FMul(Lit(51404654, -7), p)), p))
    ELSE IF k = 2
    THEN LET pr == FSub(p, I(10))
         IN  FAdd(FMul(FAdd(FMul(Lit(-1092, -3), pr), Lit(3239, -2)), pr), Lit(217315, -2))
    ELSE FAdd(FSub(Lit(-164715020, -5), FMul(Lit(585124635, -8), p)),
              FMul(Lit(132912636, -5), log(p)))

\* a slip that keeps the segment below 10 GPa at 10 GPa itself
Tsol_Earth_late(p) ==
    Tsol_Earth_seg(IF FLe(p, I(10)) THEN 1 ELSE Branch("Tsol_Earth", p), p)

Tsol_Earth(p) == Tsol_Earth_seg(Branch("Tsol_Earth", p), p)

\* the polynomial 1477.54+(139.391-(7.7545-0.160258*p)*p)*p
Tsol_CMAS_fit(p) ==
    FAdd(Lit(147754, -2),
         FMul(FSub(Lit(139391, -3),
                   FMul(FSub(Lit(77545, -4), FMul(Lit(160258, -6), p)), p)), p))

\* a slip that leaves the terrestrial solidus unshifted
Tsol_CMAS_unshifted(p) ==
    IF Branch("Tsol_CMAS", p) = 1 THEN Tsol_CMAS_fit(p) ELSE Tsol_Earth(p)

Tsol_CMAS(p) ==
    IF Branch("Tsol_CMAS", p) = 1
    THEN Tsol_CMAS_fit(p)
    ELSE FAdd(Tsol_Earth(p), Lit(1392162, -4))

\* the polynomial ((0.118912*p-6.37695)*p+130.33)*p+1340.38
Tsol_Mars_fit(p) ==
    FAdd(FMul(FAdd(FMul(FSub(FMul(Lit(118912, -6), p), Lit(637695, -5)), p),
                   Lit(13033, -2)), p), Lit(134038, -2))

Tsol_Mars(p) ==
    IF Branch("Tsol_Mars", p) = 1
    THEN Tsol_Mars_fit(p)
    ELSE FAdd(FMul(Lit(625, -1), p), I(975))

\* atomic masses (IUPAC 2013)
u == [O |-> Lit(15999, -6), Na |-> FDiv(Lit(229897693, -7), I(1000)), Mg |-> Lit(24305, -6),
      S |-> Lit(3206, -5), K |-> Lit(390983, -7), Fe |-> Lit(55845, -6)]

\* oxide contents of reference bulk silicate planet compositions
ox_E == [MgO |-> Lit(3677, -4), FeO |-> Lit(81, -3), Na2O |-> Lit(35, -4), K2O |-> Lit(3, -4)]
ox_M == [MgO |-> Lit(302, -3), FeO |-> Lit(179, -3), Na2O |-> Lit(5, -3), K2O |-> Lit(4, -4)]

dTsdNaK == Lit(-1495152, -2)
\* a slip that leaves the potassium out of the reference alkali content
xwNaK_E_sodium == ox_E.Na2O
xwNaK_E == FAdd(ox_E.Na2O, ox_E.K2O)

\* el1/(el1+el2) of a composition: its Mg#
MgNumber(ox) ==
    LET el1 == FDiv(ox.MgO, FAdd(u.Mg, u.O))
        el2 == FDiv(ox.FeO, FAdd(u.Fe, u.O))
    IN  FDiv(el1, FAdd(el1, el2))

\* the test of line 157 on the globals as read
IronRich(gMg0, gMg0_E) == FLt(gMg0, gMg0_E)

\* a slip that takes the weight of the other branch
Weight_swapped(ironRich, gMg0, gMg0_E) ==
    IF ironRich
    THEN FDiv(FSub(gMg0, gMg0_E), FSub(I(1), gMg0_E))
    ELSE FDiv(FSub(gMg0_E, gMg0), FSub(gMg0_E, MgNumber(ox_M)))

\* w_dMg0 of the branch taken, from the globals as read
Weight(ironRich, gMg0, gMg0_E) ==
    IF ironRich
    THEN FDiv(FSub(gMg0_E, gMg0), FSub(gMg0_E, MgNumber(ox_M)))
    ELSE FDiv(FSub(gMg0, gMg0_E), FSub(I(1), gMg0_E))

\* a slip that leaves the alkali effect of the reference as it is
SecondarySolidus_raw(ironRich, p) == IF ironRich THEN Tsol_Mars(p) ELSE Tsol_CMAS(p)

\* TsM of the branch taken
SecondarySolidus(ironRich, p) ==
    IF ironRich
    THEN FSub(Tsol_Mars(p), FMul(dTsdNaK, FSub(FAdd(ox_M.Na2O, ox_M.K2O), xwNaK_E)))
    ELSE FAdd(Tsol_CMAS(p), FMul(dTsdNaK, xwNaK_E))

\* alkali correction relative to terrestrial
AlkaliCorrection(ox) == FMul(dTsdNaK, FSub(FAdd(ox.Na2O, ox.K2O), xwNaK_E))

\* weighted linear interpolation plus alkali correction: the return expression
Interpolate(TsE, w_dMg0, TsM, ox) ==
    FAdd(FAdd(FMul(FSub(I(1), w_dMg0), TsE), FMul(w_dMg0, TsM)), AlkaliCorrection(ox))

\* a slip that skips the compositional variables of the target, lines 152-154
Tsol_intp_stale(p, ox) ==
    [T |-> Interpolate(Tsol_Earth(p), Weight(FALSE, MgNumber(ox_E), MgNumber(ox_E)),
                       SecondarySolidus(FALSE, p), ox),
     Mg0 |-> MgNumber(ox_E), Mg0_E |-> MgNumber(ox_E)]

\* one uninterrupted call: the value returned and the globals it leaves
Tsol_intp(p, ox) ==
    LET gE == MgNumber(ox_E)
        g0 == MgNumber(ox)
        rich == IronRich(g0, gE)
    IN  [T |-> Interpolate(Tsol_Earth(p), Weight(rich, g0, gE), SecondarySolidus(rich, p), ox),
         Mg0 |-> g0, Mg0_E |-> gE]

Tsol_chon(p) ==
    IF Branch("Tsol_chon", p) = 1
    THEN FMul(Lit(1337159, -3), Pow(FAdd(p, Lit(9717, -4)), Lit(1663, -4)))
    ELSE FMul(Lit(520735, -3), Pow(FAdd(p, Lit(96535, -4)), Lit(4155, -4)))

(***************************************************************************)
(* Peridotite liquidus                                                     *)
(***************************************************************************)
TliqfoWarning == "WARNING: p>14.64 GPa, Tliq (forsterite) assumed const."

\* the value assumed beyond pmaxfit
TliqfoConst == Lit(25576807, -4)
\* the fit 2160.6+(64.7109-(3.97463-0.0957894*p)*p)*p
TliqfoFit(p) ==
    FAdd(Lit(21606, -1),
         FMul(FSub(Lit(647109, -4),
                   FMul(FSub(Lit(397463, -5), FMul(Lit(957894, -7), p)), p)), p))

\* a slip that follows the fit beyond pmaxfit, silently
Tliqfo_unclamped(p) == [T |-> TliqfoFit(p), out |-> <<>>]

\* forsterite melting curve: the value returned and the lines printed
Tliqfo(p) ==
    IF Branch("Tliqfo", p) = 2
    THEN [T |-> TliqfoConst, out |-> <<TliqfoWarning>>]
    ELSE [T |-> TliqfoFit(p), out |-> <<>>]

\* a slip that takes the offset of the periclase curve
Tliqpy_offset(p) == FMul(Lit(589691, -3), Pow(FAdd(p, Lit(520372, -5)), Lit(453188, -6)))

\* pyrope melting curve
Tliqpy(p) == FMul(Lit(589691, -3), Pow(FAdd(p, Lit(119076, -4)), Lit(453188, -6)))
\* periclase melting curve
Tliqpc(p) == FMul(Lit(170567, -2), Pow(FAdd(p, Lit(520372, -5)), Lit(315027, -6)))

\* a slip that keeps the pyrope curve throughout the transition
Tliq_per_seg_switch(k, w, p) == IF k = 4 THEN Tliqpc(p) ELSE Tliqpy(p)

\* the formula of branch k of Tliq_per, w being the weight of periclase
Tliq_per_seg(k, w, p) ==
    IF k = 4 THEN Tliqpc(p)
    ELSE IF k = 3 THEN FAdd(FMul(FSub(I(1), w), Tliqpy(p)), FMul(w, Tliqpc(p)))
    ELSE Tliqpy(p)

Tliq_per(p) ==
    IF Branch("Tliq_per", p) = 1 THEN Tliqfo(p)
    ELSE [T |-> Tliq_per_seg(Branch("Tliq_per", p), wpc(p), p), out |-> <<>>]

\* bridgmanite melting curve
Tliqbr(p) == FAdd(FMul(FAdd(FMul(Lit(-338678, -6), p), Lit(799414, -4)), p), Lit(116902, -2))

Tliqb_per(p) ==
    IF Branch("Tliqb_per", p) = 1
    THEN FAdd(Lit(206759, -2), FMul(FSub(Lit(251327, -4), FMul(Lit(2455, -4), p)), p))
    ELSE FMul(Lit(220771, -2), Pow(FSub(p, Lit(207372, -4)), Lit(182, -3)))

Tliqb_chon(p) == FMul(Lit(310317, -3), Pow(FAdd(p, Lit(29102, -3)), Lit(5337, -4)))

(***************************************************************************)
(* Basalt/eclogite solidus and liquidus                                    *)
(***************************************************************************)
Tsgt(p) == FAdd(FMul(FAdd(FMul(Lit(-1273, -3), p), Lit(78676, -3)), p), Lit(138092, -2))
Tsbr(p) == FAdd(FMul(FAdd(FMul(Lit(-503, -4), p), Lit(19277, -3)), p), Lit(216509, -2))

\* the formula of branch k of Tsol_bas
Tsol_bas_seg(k, p) ==
    IF k = 1
    THEN LET p2 == FMul(p, p)
         IN  FAdd(FMul(FAdd(FMul(Lit(183261, -5), p2), Lit(130994, -4)), p2), I(1340))
    ELSE IF k = 2 THEN Tsgt(p)
    ELSE IF k = 3
    THEN FDiv(FAdd(FMul(Tsgt(p), FSub(pgbu, p)), FMul(Tsbr(p), FSub(p, I(26)))),
              FSub(pgbu, I(26)))
    ELSE Tsbr(p)

Tsol_bas(p) == Tsol_bas_seg(Branch("Tsol_bas", p), p)

\* diopside melting curve
Tliqdi(p) ==
    FAdd(Lit(166525, -2),
         FMul(FSub(Lit(133484, -3),
                   FMul(FSub(Lit(902117, -5), FMul(Lit(243279, -6), p)), p)), p))
\* Ca-perovskite melting curve
TliqCapv(p) == FMul(Lit(394881, -3), Pow(FAdd(p, Lit(111079, -4)), Lit(593651, -6)))

\* a slip that keeps the pyrope curve beyond 24 GPa
Tliq_bas_pyrope(p) ==
    IF Branch("Tliq_bas", p) = 1 THEN Tliqfo(p)
    ELSE IF Branch("Tliq_bas", p) = 2 THEN [T |-> Tliqdi(p), out |-> <<>>]
    ELSE [T |-> Tliqpy(p), out |-> <<>>]

Tliq_bas(p) ==
    IF Branch("Tliq_bas", p) = 1 THEN Tliqfo(p)
    ELSE IF Branch("Tliq_bas", p) = 2 THEN [T |-> Tliqdi(p), out |-> <<>>]
    ELSE IF Branch("Tliq_bas", p) = 3 THEN [T |-> Tliqpy(p), out |-> <<>>]
    ELSE [T |-> TliqCapv(p), out |-> <<>>]

Tliqb_bas(p) ==
    IF Branch("Tliqb_bas", p) = 1 THEN FAdd(FMul(Lit(215909, -4), p), I(1488))
    ELSE IF Branch("Tliqb_bas", p) = 2
    THEN FAdd(FMul(FAdd(FMul(Lit(-224727, -5), p), Lit(976753, -4)), p), Lit(142279, -2))
    ELSE IF Branch("Tliqb_bas", p) = 3
    THEN FMul(Lit(158157, -2), Pow(FSub(p, Lit(1468, -3)), Lit(151, -3)))
    ELSE TliqCapv(p)

(***************************************************************************)
(* Iron and binary iron alloys                                             *)
(***************************************************************************)
Tliq_Fe(p, mode) ==
    IF mode = "f"
    THEN IF Branch("Tliq_Fe", p) = 1 THEN FAdd(I(1811), FMul(Lit(309724, -4), p))
         ELSE IF Branch("Tliq_Fe", p) = 2
         THEN FAdd(Lit(190747, -2), FMul(FSub(Lit(198675, -4), FMul(Lit(1103, -4), p)), p))
         ELSE FAdd(Lit(213055, -2), FMul(FAdd(Lit(72054, -4), FMul(Lit(571047, -8), p)), p))
    ELSE FAdd(I(1811),
              FMul(FSub(Lit(247307, -4),
                        FMul(FSub(Lit(627041, -7), FMul(FDiv(Lit(614455, -5), I(100000)), p)), p)), p))

Tliq_FeS(p) == FMul(Lit(6385613, -4), Pow(FAdd(p, Lit(132844, -4)), Lit(3216, -4)))

\* a slip in the exponent of the fit
Xeut_steep(p) == FDiv(Lit(925, -3), Pow(FAdd(p, Lit(8444, -3)), Lit(473, -3)))

Xeut(p) == FDiv(Lit(925, -3), Pow(FAdd(p, Lit(8444, -3)), Lit(373, -3)))

Teut(p) ==
    LET fxp == FMul(Lit(49, -2),
                    FSub(I(1), FMul(Lit(85, -3),
                                    FSub(Lit(5, -1),
                                         FDiv(atan(FMul(Lit(7, -3), FSub(I(250), p))), PI)))))
        p2 == FAdd(p, I(2))
    IN  FAdd(FMul(I(255), Pow(FAdd(p, I(8)), fxp)),
             FMul(I(600), exp(FMul(Lit(-12, -3), FMul(p2, p2)))))

\* Tm-(Tm-Teut(p))*log(num)/log(den), evaluated left to right
LeverRule(Tm, Te, lognum, logden) == FSub(Tm, FDiv(FMul(FSub(Tm, Te), lognum), logden))

\* a slip that divides by the logarithm of the other branch
Tmalloy_Fe_otherlog(p, X, mode) ==
    LeverRule(Tliq_Fe(p, mode), Teut(p), log(FSub(I(1), X)), log(FAdd(Lit(5, -1), Xeut(p))))

\* Fe-rich side of eutectic
Tmalloy_Fe(p, X, mode) ==
    LeverRule(Tliq_Fe(p, mode), Teut(p), log(FSub(I(1), X)), log(FSub(I(1), Xeut(p))))

\* Fe-poor side of eutectic
Tmalloy_FeS(p, X) ==
    LeverRule(Tliq_FeS(p), Teut(p), log(FAdd(Lit(5, -1), X)), log(FAdd(Lit(5, -1), Xeut(p))))

Tmalloy(p, X, mode) ==
    IF FLe(X, Xeut(p)) THEN Tmalloy_Fe(p, X, mode) ELSE Tmalloy_FeS(p, X)

\* the exception a call ends with: none, or the one its float operations raised
NoExc == <<>>
ExcOf(v) ==
    IF v = ZeroDivisionError THEN <<"ZeroDivisionError", "float division by zero">>
    ELSE IF v = ValueError THEN <<"ValueError", "math domain error">>
    ELSE NoExc
Returned(v) == [v |-> v, exc |-> ExcOf(v)]
\* a slip that answers 0 for an element without atomic mass
Unavailable_zero(el) == Returned(Zero)

\* raise NameError('Atomic mass for element '+el+' unavailable.')
Unavailable(el) == [v |-> NameError,
                    exc |-> <<"NameError", "Atomic mass for element ", el, " unavailable.">>]

\* mass/mole conversions for binary composites: the value returned or the
\* exception raised
\* a quotient beyond the largest float, 2^1024, is inf
Overflows(q) == IsNum(q) /\ q.m # 0 /\ q.e + 26 >= 1024

\* 1./(1.+(u[el]/u['Fe'])*(1./xel-1.)); where 1./xel is inf, so is the
\* denominator, and the fraction is 0.0
mass2mol(el, xel) ==
    IF el \in DOMAIN u
    THEN Returned(IF Overflows(FDiv(I(1), xel)) THEN Zero
                  ELSE FDiv(I(1), FAdd(I(1), FMul(FDiv(u[el], u.Fe),
                                                  FSub(FDiv(I(1), xel), I(1))))))
    ELSE Unavailable(el)

\* a slip that exchanges the two atomic masses in the denominator
mol2mass_exchanged(el, xel) ==
    IF el \in DOMAIN u
    THEN Returned(FDiv(FMul(xel, u[el]),
                       FAdd(FMul(xel, u.Fe), FMul(FSub(I(1), xel), u[el]))))
    ELSE Unavailable(el)

mol2mass(el, xel) ==
    IF el \in DOMAIN u
    THEN Returned(FDiv(FMul(xel, u[el]),
                       FAdd(FMul(xel, u[el]), FMul(FSub(I(1), xel), u.Fe))))
    ELSE Unavailable(el)

(***************************************************************************)
(* State                                                                   *)
(***************************************************************************)
VARIABLES
    Mg0, Mg0_E,   \* the globals of Tsol_intp; Unbound until first assigned
    out,          \* the lines printed and not yet read by the caller
    call,         \* the call of a core function that has just returned
    prev,         \* the call before it, while its result is being passed on
    th,           \* the frames of concurrently running Tsol_intp calls
    pc, mat, compsys, ox, wS, xS, title, pTrange, p_crv, Tl_crv, Ts_crv,
    figure, evaluated, alloyX, err, shown
                  \* the main program: position, inputs, and what it produced

globals == <<Mg0, Mg0_E>>
mainvars == <<pc, mat, compsys, ox, wS, xS, title, pTrange, p_crv, Tl_crv, Ts_crv,
              figure, evaluated, alloyX, err, shown>>
vars == <<Mg0, Mg0_E, out, call, prev, th, mainvars>>

(***************************************************************************)
(* Bounds and inputs                                                       *)
(***************************************************************************)
MaxPIdx == 6
MaxXIdx == 5

\* pressures in GPa: a regular grid and the segment boundaries of the curves
PGrid == {I(5 * i) : i \in 0 .. MaxPIdx}
            \cup {I(9), I(13), Lit(13244, -3), Lit(1464, -2), Lit(1465, -2), Lit(235, -1), I(24)}
            \cup {Lit(88, -2), I(1), I(3), Lit(312, -2), Lit(3728, -3), Lit(8044, -3),
                  I(22), Lit(2276, -2), I(23), I(26), Lit(275, -1), Lit(8706, -2), I(90)}
\* the pressures of the alloy melting point: those of the grid, one beyond
\* every plotted range, and 2.0**150, where 1-Xeut(p) is 1.0
PAlloy == PGrid \cup {I(1500), [m |-> MantLo, e |-> 124]}
\* sulfur mole fractions 0, 0.1 .. 0.5
XGrid == {Lit(i, -1) : i \in 0 .. MaxXIdx}
Modes == {"f", "s"}
\* element symbols: those of the table u and two without atomic mass
Elements == DOMAIN u \cup {"Si", "Ni"}
\* mass or mole fractions handed to the conversions
Fractions == {Zero} \cup {Lit(i, -1) : i \in 1 .. 9} \cup {Lit(5, -2), Lit(95, -2)}
\* target compositions: the references (Mars is iron-rich), an iron-free and an iron-poor one
ox_CMAS == [MgO |-> Lit(40, -2), FeO |-> Zero, Na2O |-> Zero, K2O |-> Zero]
ox_poor == [MgO |-> Lit(38, -2), FeO |-> Lit(5, -2), Na2O |-> Lit(3, -3), K2O |-> Lit(2, -4)]
OxGrid == {ox_E, ox_M, ox_CMAS, ox_poor}
\* compositions between Mars and the Earth and beyond Mars in iron, and one
\* without magnesium and iron
ox_rich == [MgO |-> Lit(33, -2), FeO |-> Lit(13, -2), Na2O |-> Lit(4, -3), K2O |-> Lit(3, -4)]
ox_iron == [MgO |-> Lit(25, -2), FeO |-> Lit(25, -2), Na2O |-> Lit(5, -3), K2O |-> Lit(4, -4)]
ox_none == [MgO |-> Zero, FeO |-> Zero, Na2O |-> Lit(5, -3), K2O |-> Lit(4, -4)]
\* the compositions handed to Tsol_intp in single calls
OxCalls == OxGrid \cup {ox_rich, ox_iron, ox_none}

NoOx == [MgO |-> Zero, FeO |-> Zero, Na2O |-> Zero, K2O |-> Zero]
NoCall == [fn |-> "", p |-> Zero, X |-> Zero, mode |-> "", el |-> "", xel |-> Zero,
           ox |-> NoOx, ret |-> Zero, exc |-> NoExc]
NoThreads == <<>>
\* pressures of the concurrent calls
PThreads == {I(5), I(24)}
\* the frame of a call Tsol_intp(p, o) about to execute its first assignment
Frame(p, o) == [pc |-> "l148", p |-> p, ox |-> o, rich |-> FALSE,
                TsE |-> Zero, w_dMg0 |-> Zero, TsM |-> Zero, ret |-> Zero]

(***************************************************************************)
(* Initial state: the module has been loaded, nothing has been called      *)
(***************************************************************************)
MainInit ==
    /\ pc = "l546" /\ mat = 0 /\ compsys = 0 /\ ox = NoOx
    /\ wS = Zero /\ xS = Zero /\ title = <<>> /\ pTrange = <<>>
    /\ p_crv = <<>> /\ Tl_crv = <<>> /\ Ts_crv = <<>>
    /\ figure = <<>> /\ evaluated = {} /\ alloyX = {} /\ err = NoExc /\ shown = <<>>

Init ==
    /\ Mg0 = Unbound /\ Mg0_E = Unbound
    /\ out = <<>>
    /\ call = NoCall /\ prev = NoCall
    /\ th = NoThreads
    /\ MainInit

(***************************************************************************)
(* Calls of the core functions, one after the other                        *)
(***************************************************************************)
\* a call returns c, having printed the lines of printed and left the
\* globals g0, gE
Invoke(c, printed, g0, gE) ==
    /\ call = NoCall
    /\ call' = [c EXCEPT !.exc = IF c.exc = NoExc THEN ExcOf(c.ret) ELSE c.exc]
    /\ out' = out \o printed
    /\ Mg0' = g0 /\ Mg0_E' = gE
    /\ UNCHANGED <<prev, th, mainvars>>

\* a function of the pressure alone that prints nothing
Pure(name, p, T) ==
    Invoke([NoCall EXCEPT !.fn = name, !.p = p, !.ret = T], <<>>, Mg0, Mg0_E)
\* a function of the pressure alone that may print
Printing(name, p, r) ==
    Invoke([NoCall EXCEPT !.fn = name, !.p = p, !.ret = r.T], r.out, Mg0, Mg0_E)

Call_Tsol_Earth == \E p \in PGrid : Pure("Tsol_Earth", p, Tsol_Earth(p))
Call_Tsol_CMAS == \E p \in PGrid : Pure("Tsol_CMAS", p, Tsol_CMAS(p))
Call_Tsol_Mars == \E p \in PGrid : Pure("Tsol_Mars", p, Tsol_Mars(p))
Call_Tsol_chon == \E p \in PGrid : Pure("Tsol_chon", p, Tsol_chon(p))
Call_Tliqpy == \E p \in PGrid : Pure("Tliqpy", p, Tliqpy(p))
Call_Tliqpc == \E p \in PGrid : Pure("Tliqpc", p, Tliqpc(p))
Call_Tliqbr == \E p \in PGrid : Pure("Tliqbr", p, Tliqbr(p))
Call_Tliqb_per == \E p \in PGrid : Pure("Tliqb_per", p, Tliqb_per(p))
Call_Tliqb_chon == \E p \in PGrid : Pure("Tliqb_chon", p, Tliqb_chon(p))
Call_Tsol_bas == \E p \in PGrid : Pure("Tsol_bas", p, Tsol_bas(p))
Call_Tliqdi == \E p \in PGrid : Pure("Tliqdi", p, Tliqdi(p))
Call_TliqCapv == \E p \in PGrid : Pure("TliqCapv", p, TliqCapv(p))
Call_Tliqb_bas == \E p \in PGrid : Pure("Tliqb_bas", p, Tliqb_bas(p))
Call_Tliq_FeS == \E p \in PGrid : Pure("Tliq_FeS", p, Tliq_FeS(p))
Call_Xeut == \E p \in PGrid : Pure("Xeut", p, Xeut(p))
Call_Teut == \E p \in PGrid : Pure("Teut", p, Teut(p))

Call_Tliqfo == \E p \in PGrid : Printing("Tliqfo", p, Tliqfo(p))
Call_Tliq_per == \E p \in PGrid : Printing("Tliq_per", p, Tliq_per(p))
Call_Tliq_bas == \E p \in PGrid : Printing("Tliq_bas", p, Tliq_bas(p))

Call_Tliq_Fe ==
    \E p \in PGrid, mode \in Modes :
        Invoke([NoCall EXCEPT !.fn = "Tliq_Fe", !.p = p, !.mode = mode,
                              !.ret = Tliq_Fe(p, mode)], <<>>, Mg0, Mg0_E)

\* the alloy melting point, at the grid compositions and at the eutectic one
Call_Tmalloy ==
    \E p \in PAlloy, mode \in Modes :
        \E X \in XGrid \cup {Xeut(p)} :
            Invoke([NoCall EXCEPT !.fn = "Tmalloy", !.p = p, !.X = X, !.mode = mode,
                                  !.ret = Tmalloy(p, X, mode)], <<>>, Mg0, Mg0_E)

\* a call of Tsol_intp with the result r: it assigns the globals Mg0_E and Mg0
Invoke_Tsol_intp(p, o, r) ==
    Invoke([NoCall EXCEPT !.fn = "Tsol_intp", !.p = p, !.ox = o, !.ret = r.T],
           <<>>, IF IsErr(r.Mg0) THEN Mg0 ELSE r.Mg0, r.Mg0_E)

\* the interpolated solidus
Call_Tsol_intp ==
    \E p \in PGrid, o \in OxCalls : Invoke_Tsol_intp(p, o, Tsol_intp(p, o))

Call_mass2mol ==
    \E el \in Elements, xel \in Fractions :
        LET r == mass2mol(el, xel)
        IN  Invoke([NoCall EXCEPT !.fn = "mass2mol", !.el = el, !.xel = xel,
                                  !.ret = r.v, !.exc = r.exc], <<>>, Mg0, Mg0_E)

Call_mol2mass ==
    \E el \in Elements, xel \in Fractions :
        LET r == mol2mass(el, xel)
        IN  Invoke([NoCall EXCEPT !.fn = "mol2mass", !.el = el, !.xel = xel,
                                  !.ret = r.v, !.exc = r.exc], <<>>, Mg0, Mg0_E)

\* the caller takes the result and the captured output
Return ==
    /\ call # NoCall
    /\ call' = NoCall /\ prev' = NoCall
    /\ out' = <<>>
    /\ UNCHANGED <<Mg0, Mg0_E, th, mainvars>>

Next ==
    \/ Call_Tsol_Earth \/ Call_Tsol_CMAS \/ Call_Tsol_Mars \/ Call_Tsol_chon
    \/ Call_Tliqpy \/ Call_Tliqpc \/ Call_Tliqbr \/ Call_Tliqb_per \/ Call_Tliqb_chon
    \/ Call_Tsol_bas \/ Call_Tliqdi \/ Call_TliqCapv \/ Call_Tliqb_bas
    \/ Call_Tliq_FeS \/ Call_Xeut \/ Call_Teut
    \/ Call_Tliqfo \/ Call_Tliq_per \/ Call_Tliq_bas
    \/ Call_Tliq_Fe \/ Call_Tmalloy \/ Call_Tsol_intp
    \/ Call_mass2mol \/ Call_mol2mass
    \/ Return

Spec == Init /\ [][Next]_vars

(***************************************************************************)
(* A conversion followed by the inverse conversion of its result           *)
(***************************************************************************)
\* the fraction returned by inner is handed, with the same element, to outer
Chain(inner, outer, r) ==
    /\ call.fn = inner /\ call.exc = NoExc /\ prev = NoCall
    /\ prev' = call
    /\ call' = [NoCall EXCEPT !.fn = outer, !.el = call.el, !.xel = call.ret,
                              !.ret = r.v, !.exc = r.exc]
    /\ out' = <<>>
    /\ UNCHANGED <<Mg0, Mg0_E, th, mainvars>>

Chain_mol2mass == Chain("mass2mol", "mol2mass", mol2mass(call.el, call.ret))
Chain_mass2mol == Chain("mol2mass", "mass2mol", mass2mol(call.el, call.ret))

NextConv ==
    \/ Call_mass2mol \/ Call_mol2mass
    \/ Chain_mol2mass \/ Chain_mass2mol
    \/ Return

SpecConv == Init /\ [][NextConv]_vars

(***************************************************************************)
(* Two calls of Tsol_intp running in two threads.  The interpreter may     *)
(* switch threads between any two statements; the statements that touch    *)
(* the globals Mg0 and Mg0_E are steps of their own.                       *)
(***************************************************************************)
\* threading.Thread(target=Tsol_intp, args=(p, ox)).start(), twice
StartThreads ==
    /\ th = NoThreads /\ call = NoCall
    /\ \E p1 \in PThreads, p2 \in PThreads, o1 \in OxGrid, o2 \in OxGrid :
           th' = <<Frame(p1, o1), Frame(p2, o2)>>
    /\ UNCHANGED <<Mg0, Mg0_E, out, call, prev, mainvars>>

\* thread i is at statement l and moves on to frame f
At(i, l) == i \in DOMAIN th /\ th[i].pc = l
Goes(i, f) == th' = [th EXCEPT ![i] = f]

\* Mg0_E=el1/(el1+el2), for the Earth reference
T_l148 ==
    \E i \in {1, 2} :
        /\ At(i, "l148")
        /\ Mg0_E' = MgNumber(ox_E)
        /\ Goes(i, [th[i] EXCEPT !.pc = "l154"])
        /\ UNCHANGED <<Mg0, out, call, prev, mainvars>>

\* Mg0=el1/(el1+el2), for the target composition
T_l154 ==
    \E i \in {1, 2} :
        /\ At(i, "l154")
        /\ Mg0' = MgNumber(th[i].ox)
        /\ Goes(i, [th[i] EXCEPT !.pc = "l157"])
        /\ UNCHANGED <<Mg0_E, out, call, prev, mainvars>>

\* TsE=Tsol_Earth(p); if Mg0 < Mg0_E:
T_l157 ==
    \E i \in {1, 2} :
        /\ At(i, "l157")
        /\ Goes(i, [th[i] EXCEPT !.TsE = Tsol_Earth(th[i].p),
                                 !.rich = IronRich(Mg0, Mg0_E),
                                 !.pc = IF IronRich(Mg0, Mg0_E) THEN "l161" ELSE "l165"])
        /\ UNCHANGED <<Mg0, Mg0_E, out, call, prev, mainvars>>

\* iron-rich: w_dMg0=(Mg0_E-Mg0)/(Mg0_E-el1/(el1+el2)); TsM=Tsol_Mars(p)-...
T_l161 ==
    \E i \in {1, 2} :
        /\ At(i, "l161")
        /\ Goes(i, [th[i] EXCEPT !.w_dMg0 = Weight(TRUE, Mg0, Mg0_E),
                                 !.TsM = SecondarySolidus(TRUE, th[i].p),
                                 !.pc = "l168"])
        /\ UNCHANGED <<Mg0, Mg0_E, out, call, prev, mainvars>>

\* iron-poor: w_dMg0=(Mg0-Mg0_E)/(1-Mg0_E); TsM=Tsol_CMAS(p)+dTsdNaK*xwNaK_E
T_l165 ==
    \E i \in {1, 2} :
        /\ At(i, "l165")
        /\ Goes(i, [th[i] EXCEPT !.w_dMg0 = Weight(FALSE, Mg0, Mg0_E),
                                 !.TsM = SecondarySolidus(FALSE, th[i].p),
                                 !.pc = "l168"])
        /\ UNCHANGED <<Mg0, Mg0_E, out, call, prev, mainvars>>

\* return (1.-w_dMg0)*TsE+w_dMg0*TsM+dTsdNaK*(ox['Na2O']+ox['K2O']-xwNaK_E)
T_l168 ==
    \E i \in {1, 2} :
        /\ At(i, "l168")
        /\ Goes(i, [th[i] EXCEPT !.ret = Interpolate(th[i].TsE, th[i].w_dMg0,
                                                     th[i].TsM, th[i].ox),
                                 !.pc = "done"])
        /\ UNCHANGED <<Mg0, Mg0_E, out, call, prev, mainvars>>

NextThreads == StartThreads \/ T_l148 \/ T_l154 \/ T_l157 \/ T_l161 \/ T_l165 \/ T_l168

SpecThreads == Init /\ [][NextThreads]_vars

(***************************************************************************)
(* The main program (lines 540-1034).  It asks for a material, evaluates   *)
(* and plots the curves of that material and shows the figure.  pc names   *)
(* the line about to be executed; "exit" is the end by an exception and    *)
(* "done" the regular end.  A curve is the list of the values of a         *)
(* function at the pressures p_crv, of which the model keeps NSamp equally *)
(* spaced ones.  The experimental data points are constants of the program *)
(* that no function is applied to; plotting them is left out.              *)
(***************************************************************************)
NSamp == 3

\* np.linspace(lo, hi, n) thinned to NSamp points, the end points included
linspace(lo, hi) ==
    [i \in 1 .. NSamp |->
        IF i = NSamp THEN hi
        ELSE FAdd(lo, FMul(I(i - 1), FDiv(FSub(hi, lo), I(NSamp - 1))))]

\* 0.01*float(input(..)): a percentage typed by the user as a fraction
Percent(x) == FMul(Lit(1, -2), x)

\* "%.df" % a as the integer a*10^d rounded to nearest, ties to even; bits
\* of a below 2^-27 are dropped first
Format(a, d) ==
    IF a.m = 0 THEN 0
    ELSE IF a.e >= 0 THEN a.m * 2 ^ a.e * 10 ^ d
    ELSE IF a.e < -80 THEN 0
    ELSE LET sh == Min(0 - a.e, 27)
             qr == MulDivQR(Abs(a.m) \div 2 ^ ((0 - a.e) - sh), 10 ^ d, 2 ^ sh)
             up == 2 * qr[2] > 2 ^ sh \/ (2 * qr[2] = 2 ^ sh /\ qr[1] % 2 = 1)
         IN  (IF a.m < 0 THEN -1 ELSE 1) * (IF up THEN qr[1] + 1 ELSE qr[1])

\* what the user may type
MatInputs == {-1, 0, 1, 2, 3, 4, 5}
CompInputs == {0, 1, 2, 3, 4, 5, 6}
\* sulfur contents in wt.%; 36.47 wt.% is the mole fraction 0.5, and 2^-1056,
\* about 1.3e-318, is a content whose reciprocal is beyond the floats
SInputs == {I(-5), Zero, I(1), I(10), I(20), I(36), I(37), I(50), I(100), I(150)}
               \cup {[m |-> MantLo, e |-> -1082]}
\* oxide contents in %: Earth's, Mars', an iron-free, an iron-poor and an empty one
OxInputs ==
    { [MgO |-> Lit(3677, -2), FeO |-> Lit(81, -1), Na2O |-> Lit(35, -2), K2O |-> Lit(3, -2)],
      [MgO |-> Lit(302, -1), FeO |-> Lit(179, -1), Na2O |-> Lit(5, -1), K2O |-> Lit(4, -2)],
      [MgO |-> I(40), FeO |-> Zero, Na2O |-> Zero, K2O |-> Zero],
      [MgO |-> I(38), FeO |-> I(5), Na2O |-> Lit(3, -1), K2O |-> Lit(2, -2)],
      [MgO |-> Zero, FeO |-> Zero, Na2O |-> Zero, K2O |-> Zero] }
Oxides == <<"MgO", "FeO", "Na2O", "K2O">>

IOError == <<"IOError", "Unknown material.">>
SulfurWarning == "WARNING: Alloy contains more S than Fe: xS=%.2f mol%"
SulfurNotice == "         Calculating curves for pure FeS: wS=%.2f wt.%"

\* the exception that ends the evaluation of a list of values, if any
Raised(crv) ==
    IF \E i \in DOMAIN crv : IsErr(crv[i])
    THEN ExcOf(crv[CHOOSE i \in DOMAIN crv :
                       IsErr(crv[i]) /\ \A j \in 1 .. i - 1 : IsNum(crv[j])])
    ELSE NoExc

\* the lines printed by the calls rs[i], rs[i+1], ..
RECURSIVE Lines(_, _)
Lines(rs, i) ==
    IF i > Len(rs) THEN <<>>
    ELSE [k \in DOMAIN rs[i].out |-> <<rs[i].out[k]>>] \o Lines(rs, i + 1)

\* plt.plot(p_crv, crv, .., label=label) on the current figure
Plot(fig, label, ps, crv) == Append(fig, [label |-> label, p |-> ps, T |-> crv])

\* var=[fn(p) for p in p_crv], then plt.plot(.. label=label) unless label is
\* empty and pTrange=range unless range is empty; the program goes on at
\* line next.  An exception raised by fn ends the program instead.
Evaluate(fn, crv, printed, var, label, range, next) ==
    /\ evaluated' = evaluated \cup {fn}
    /\ alloyX' = IF fn = "Tmalloy" THEN alloyX \cup {xS} ELSE alloyX
    /\ out' = out \o printed
    /\ IF Raised(crv) = NoExc
       THEN /\ Tl_crv' = IF var = "Tl_crv" THEN crv ELSE Tl_crv
            /\ Ts_crv' = IF var = "Ts_crv" THEN crv ELSE Ts_crv
            /\ figure' = IF label = "" THEN figure ELSE Plot(figure, label, p_crv', crv)
            /\ pTrange' = IF range = <<>> THEN pTrange ELSE range
            /\ pc' = next /\ err' = err
       ELSE /\ pc' = "exit" /\ err' = Raised(crv)
            /\ UNCHANGED <<Tl_crv, Ts_crv, figure, pTrange>>
    /\ UNCHANGED <<Mg0, Mg0_E, call, prev, th, mat, compsys, ox, wS, xS, shown>>

\* the same for a function that may print
EvaluatePrinting(fn, rs, var, label, range, next) ==
    Evaluate(fn, [i \in DOMAIN rs |-> rs[i].T], Lines(rs, 1), var, label, range, next)

\* a step that evaluates nothing and goes on at line next
Goto(next) ==
    /\ pc' = next
    /\ UNCHANGED <<Mg0, Mg0_E, call, prev, th, evaluated, alloyX, err, shown>>

\* line 546-547: mat=int(input(..)); plt.figure(figsize=(12,7))
SelectMaterial ==
    /\ pc = "l546" /\ call = NoCall
    /\ \E m \in MatInputs : mat' = m
    /\ Goto("l548")
    /\ UNCHANGED <<compsys, ox, wS, xS, title, figure, pTrange, p_crv, Tl_crv, Ts_crv, out>>

\* line 548: if mat == 1
Peridotite ==
    /\ pc = "l548" /\ mat = 1
    /\ Goto("l589")
    /\ UNCHANGED <<mat, compsys, ox, wS, xS, title, figure, pTrange, p_crv, Tl_crv, Ts_crv, out>>

\* lines 742-744: elif mat == 2: title="Basalt/eclogite"
Basalt ==
    /\ pc = "l548" /\ mat = 2
    /\ title' = <<"Basalt/eclogite">>
    /\ Goto("l801")
    /\ UNCHANGED <<mat, compsys, ox, wS, xS, figure, pTrange, p_crv, Tl_crv, Ts_crv, out>>

\* lines 843-845: elif mat == 3: title="Fe"
Iron ==
    /\ pc = "l548" /\ mat = 3
    /\ title' = <<"Fe">>
    /\ Goto("l907")
    /\ UNCHANGED <<mat, compsys, ox, wS, xS, figure, pTrange, p_crv, Tl_crv, Ts_crv, out>>

\* a slip that lets an unknown material pass to the end of the program
UnknownMaterial_silent ==
    /\ pc = "l548" /\ mat \notin {1, 2, 3}
    /\ pTrange' = <<0, 0, 0, 0>>
    /\ Goto("l993")
    /\ UNCHANGED <<mat, compsys, ox, wS, xS, title, figure, p_crv, Tl_crv, Ts_crv, out>>

\* lines 990-991: else: raise IOError("Unknown material.")
UnknownMaterial ==
    /\ pc = "l548" /\ mat \notin {1, 2, 3}
    /\ pc' = "exit" /\ err' = IOError
    /\ UNCHANGED <<Mg0, Mg0_E, call, prev, th, evaluated, alloyX, shown>>
    /\ UNCHANGED <<mat, compsys, ox, wS, xS, title, figure, pTrange, p_crv, Tl_crv, Ts_crv, out>>

\* lines 589-591 and 801-803: the forsterite liquidus
Forsterite ==
    /\ pc \in {"l589", "l801"}
    /\ p_crv' = linspace(Zero, Lit(145, -1))
    /\ EvaluatePrinting("Tliqfo", [i \in DOMAIN p_crv' |-> Tliqfo(p_crv'[i])],
                        "Tl_crv", "Forsterite liquidus", <<>>,
                        IF pc = "l589" THEN "l592" ELSE "l804")
    /\ UNCHANGED title

\* lines 804-806: the diopside liquidus
Diopside ==
    /\ pc = "l804"
    /\ p_crv' = linspace(Zero, I(16))
    /\ Evaluate("Tliqdi", [i \in DOMAIN p_crv' |-> Tliqdi(p_crv'[i])], <<>>,
                "Tl_crv", "Diopside liquidus", <<>>, "l807")
    /\ UNCHANGED title

\* lines 592-594 and 807-809: the pyrope liquidus
Pyrope ==
    /\ pc \in {"l592", "l807"}
    /\ p_crv' = linspace(I(2), I(26))
    /\ Evaluate("Tliqpy", [i \in DOMAIN p_crv' |-> Tliqpy(p_crv'[i])], <<>>,
                "Tl_crv", "Pyrope liquidus", <<>>,
                IF pc = "l592" THEN "l595" ELSE "l810")
    /\ UNCHANGED title

\* lines 595-597: the periclase liquidus
Periclase ==
    /\ pc = "l595"
    /\ p_crv' = linspace(Zero, I(140))
    /\ Evaluate("Tliqpc", [i \in DOMAIN p_crv' |-> Tliqpc(p_crv'[i])], <<>>,
                "Tl_crv", "Periclase liquidus", <<>>, "l599")
    /\ UNCHANGED title

\* lines 810-812: the Ca-perovskite liquidus
CaPerovskite ==
    /\ pc = "l810"
    /\ p_crv' = linspace(Lit(145, -1), I(45))
    /\ Evaluate("TliqCapv", [i \in DOMAIN p_crv' |-> TliqCapv(p_crv'[i])], <<>>,
                "Tl_crv", "Ca-perovskite liquidus", <<>>, "l821")
    /\ UNCHANGED title

\* line 599: compsys=int(input(..))
SelectComposition ==
    /\ pc = "l599"
    /\ \E c \in CompInputs : compsys' = c
    /\ Goto("l600")
    /\ UNCHANGED <<mat, ox, wS, xS, title, figure, pTrange, p_crv, Tl_crv, Ts_crv, out>>

\* lines 600-628: if compsys == 1, up to the batch liquidus
Terrestrial ==
    /\ pc = "l600" /\ compsys = 1
    /\ title' = <<"Terrestrial peridotite">>
    /\ p_crv' = linspace(Zero, I(170))
    /\ Evaluate("Tliqb_per", [i \in DOMAIN p_crv' |-> Tliqb_per(p_crv'[i])], <<>>,
                "Tl_crv", "Batch liquidus", <<>>, "l643")

\* line 643, Ts_crv=[Tsol_Earth(p) ..], and lines 733-734, the terrestrial
\* solidus as reference
EarthSolidus ==
    /\ pc \in {"l643", "l733"}
    /\ p_crv' = p_crv
    /\ Evaluate("Tsol_Earth", [i \in DOMAIN p_crv' |-> Tsol_Earth(p_crv'[i])], <<>>,
                IF pc = "l643" THEN "Ts_crv" ELSE "Ti_crv",
                IF pc = "l643" THEN "" ELSE "terr. Solidus", <<>>,
                IF pc = "l643" THEN "l644" ELSE "l735")
    /\ UNCHANGED title

\* lines 644-645, 659, 673, 709 and 722: Tl_crv=[Tliq_per(p) for p in p_crv]
FractionalLiquidus ==
    /\ pc \in {"l644", "l659", "l673", "l709", "l722"}
    /\ p_crv' = p_crv
    /\ EvaluatePrinting("Tliq_per", [i \in DOMAIN p_crv' |-> Tliq_per(p_crv'[i])],
                        "Tl_crv", "",
                        IF pc = "l644" THEN <<0, 175, 1350, 8000>> ELSE <<>>,
                        CASE pc = "l644" -> "l727" [] pc = "l659" -> "l660"
                          [] pc = "l673" -> "l674" [] pc = "l709" -> "l710"
                          [] pc = "l722" -> "l723")
    /\ UNCHANGED title

\* lines 646-658: elif compsys == 2
Martian ==
    /\ pc = "l600" /\ compsys = 2
    /\ title' = <<"Martian peridotite">>
    /\ p_crv' = linspace(Zero, I(25))
    /\ Goto("l659")
    /\ UNCHANGED <<mat, compsys, ox, wS, xS, figure, pTrange, Tl_crv, Ts_crv, out>>

\* lines 660-661, Ts_crv=[Tsol_Mars(p) ..], and lines 735-737, the martian
\* solidus as reference of an iron-rich composition
MarsSolidus ==
    /\ pc = "l660" \/ (pc = "l735" /\ FLt(Mg0, Mg0_E))
    /\ p_crv' = p_crv
    /\ Evaluate("Tsol_Mars", [i \in DOMAIN p_crv' |-> Tsol_Mars(p_crv'[i])], <<>>,
                IF pc = "l660" THEN "Ts_crv" ELSE "Ti_crv",
                IF pc = "l660" THEN "" ELSE "mart. Solidus",
                IF pc = "l660" THEN <<0, 25, 1350, 3000>> ELSE <<>>,
                IF pc = "l660" THEN "l727" ELSE "l741")
    /\ UNCHANGED title

\* lines 662-672: elif compsys == 3
CMAS ==
    /\ pc = "l600" /\ compsys = 3
    /\ title' = <<"CMAS composition">>
    /\ p_crv' = linspace(Zero, I(25))
    /\ Goto("l673")
    /\ UNCHANGED <<mat, compsys, ox, wS, xS, figure, pTrange, Tl_crv, Ts_crv, out>>

\* lines 674-675, Ts_crv=[Tsol_CMAS(p) ..], and lines 738-740, the CMAS
\* solidus as reference of an iron-poor composition
CMASSolidus ==
    /\ pc = "l674" \/ (pc = "l735" /\ ~FLt(Mg0, Mg0_E))
    /\ p_crv' = p_crv
    /\ Evaluate("Tsol_CMAS", [i \in DOMAIN p_crv' |-> Tsol_CMAS(p_crv'[i])], <<>>,
                IF pc = "l674" THEN "Ts_crv" ELSE "Ti_crv",
                IF pc = "l674" THEN "" ELSE "CMAS Solidus",
                IF pc = "l674" THEN <<0, 25, 1400, 3000>> ELSE <<>>,
                IF pc = "l674" THEN "l727" ELSE "l741")
    /\ UNCHANGED title

\* lines 676-695: elif compsys == 4, up to the batch liquidus
Chondritic ==
    /\ pc = "l600" /\ compsys = 4
    /\ title' = <<"Chondritic composition">>
    /\ p_crv' = linspace(Zero, I(150))
    /\ Evaluate("Tliqb_chon", [i \in DOMAIN p_crv' |-> Tliqb_chon(p_crv'[i])], <<>>,
                "Tl_crv", "Batch liquidus", <<>>, "l709")

\* lines 710-711: Ts_crv=[Tsol_chon(p) for p in p_crv]
ChondriticSolidus ==
    /\ pc = "l710"
    /\ p_crv' = p_crv
    /\ Evaluate("Tsol_chon", [i \in DOMAIN p_crv' |-> Tsol_chon(p_crv'[i])], <<>>,
                "Ts_crv", "", <<0, 150, 1400, 7000>>, "l727")
    /\ UNCHANGED title

\* lines 712-721: else: the oxide contents are asked for, whatever integer
\* was typed
Other ==
    /\ pc = "l600" /\ compsys \notin {1, 2, 3, 4}
    /\ out' = out \o <<<<"Oxide mass fractions (in %): ">>>>
                  \o [k \in 1 .. 4 |->
                        <<Oxides[k] \o " (Earth: %.2f%%; Mars: %.2f%%)",
                          Format(FMul(I(100), ox_E[Oxides[k]]), 2),
                          Format(FMul(I(100), ox_M[Oxides[k]]), 2)>>]
    /\ \E o \in OxInputs : ox' = [nm \in DOMAIN o |-> Percent(o[nm])]
    /\ p_crv' = linspace(Zero, I(25))
    /\ Goto("l722")
    /\ UNCHANGED <<mat, compsys, wS, xS, title, figure, pTrange, Tl_crv, Ts_crv>>

\* the calls rs of Tsol_intp have been made: the globals are those the last
\* call left, or Mg0_E alone if the call failed computing Mg0
Interpolated(rs) ==
    /\ evaluated' = evaluated \cup {"Tsol_intp"}
    /\ Mg0_E' = rs[1].Mg0_E
    /\ IF Raised([i \in DOMAIN rs |-> rs[i].T]) = NoExc
       THEN /\ Mg0' = rs[Len(rs)].Mg0
            /\ Ts_crv' = [i \in DOMAIN rs |-> rs[i].T]
            /\ pTrange' = <<0, 25, 1350, 3000>>
            /\ title' = <<"Peridotitic composition with Mg#=%.3f", Format(Mg0', 3)>>
            /\ pc' = "l727" /\ err' = err
       ELSE /\ Mg0' = IF IsErr(rs[1].Mg0) THEN Mg0 ELSE rs[1].Mg0
            /\ pc' = "exit" /\ err' = Raised([i \in DOMAIN rs |-> rs[i].T])
            /\ UNCHANGED <<Ts_crv, pTrange, title>>

\* lines 723-725: Ts_crv=[Tsol_intp(p,ox) for p in p_crv]; the title is made
\* from the global Mg0
InterpolatedSolidus ==
    /\ pc = "l723"
    /\ Interpolated([i \in DOMAIN p_crv |-> Tsol_intp(p_crv[i], ox)])
    /\ UNCHANGED <<call, prev, th, mat, compsys, ox, wS, xS, figure, p_crv, Tl_crv,
                   alloyX, shown, out>>

\* lines 727-728: the fractional liquidus is plotted
PlotLiquidus ==
    /\ pc = "l727"
    /\ figure' = Plot(figure, "Fractional liquidus", p_crv, Tl_crv)
    /\ Goto(IF compsys <= 4 THEN "l741" ELSE "l733")
    /\ UNCHANGED <<mat, compsys, ox, wS, xS, title, pTrange, p_crv, Tl_crv, Ts_crv, out>>

\* line 741: the solidus is plotted
PlotSolidus ==
    /\ pc = "l741"
    /\ figure' = Plot(figure, "Solidus", p_crv, Ts_crv)
    /\ Goto("l993")
    /\ UNCHANGED <<mat, compsys, ox, wS, xS, title, pTrange, p_crv, Tl_crv, Ts_crv, out>>

\* lines 821-823: the batch liquidus of basalt
BasaltBatch ==
    /\ pc = "l821"
    /\ p_crv' = linspace(Zero, I(150))
    /\ Evaluate("Tliqb_bas", [i \in DOMAIN p_crv' |-> Tliqb_bas(p_crv'[i])], <<>>,
                "Tl_crv", "Batch liquidus", <<>>, "l824")
    /\ UNCHANGED title

\* lines 824-825: the fractional liquidus of basalt
BasaltFractional ==
    /\ pc = "l824"
    /\ p_crv' = p_crv
    /\ EvaluatePrinting("Tliq_bas", [i \in DOMAIN p_crv' |-> Tliq_bas(p_crv'[i])],
                        "Tl_crv", "Fractional liquidus", <<>>, "l840")
    /\ UNCHANGED title

\* lines 840-842: the solidus of basalt
BasaltSolidus ==
    /\ pc = "l840"
    /\ p_crv' = p_crv
    /\ Evaluate("Tsol_bas", [i \in DOMAIN p_crv' |-> Tsol_bas(p_crv'[i])], <<>>,
                "Ts_crv", "Solidus", <<0, 150, 1200, 4000>>, "l993")
    /\ UNCHANGED title

\* lines 907-911: the melting curves of pure iron, flat and steep gradient
IronLiquidus ==
    /\ pc \in {"l907", "l910"}
    /\ p_crv' = linspace(Zero, I(400))
    /\ Evaluate("Tliq_Fe",
                [i \in DOMAIN p_crv' |-> Tliq_Fe(p_crv'[i], IF pc = "l907" THEN "f" ELSE "s")],
                <<>>, "Tl_crv",
                IF pc = "l907" THEN "Fe, flat gradient" ELSE "Fe, steep gradient", <<>>,
                IF pc = "l907" THEN "l910" ELSE "l913")
    /\ UNCHANGED title

\* lines 913-914: xS=0.; wS=0.01*float(input("S content (wt.%): "))
ReadSulfur ==
    /\ pc = "l913"
    /\ xS' = Zero
    /\ \E s \in SInputs : wS' = Percent(s)
    /\ Goto("l915")
    /\ UNCHANGED <<mat, compsys, ox, title, figure, pTrange, p_crv, Tl_crv, Ts_crv, out>>

\* lines 915-924 and 988-989, the mole fraction being x: beyond 0.5 it is
\* set to 0.5 with a warning and the mass fraction is computed anew
Sulfur(x) ==
    IF ~FGt(wS, Zero)
    THEN /\ pTrange' = <<0, 400, 1500, 6000>>
         /\ pc' = "l993"
         /\ UNCHANGED <<wS, xS, out, title>>
    ELSE IF FGt(x, Lit(5, -1))
    THEN /\ xS' = Lit(5, -1)
         /\ wS' = mol2mass("S", xS').v
         /\ out' = out \o << <<SulfurWarning, Format(FMul(x, I(100)), 2)>>,
                             <<SulfurNotice, Format(FMul(wS', I(100)), 2)>> >>
         /\ title' = title \o <<", FeS, and eutectic">>
         /\ pc' = "l939"
         /\ UNCHANGED pTrange
    ELSE /\ xS' = x
         /\ title' = title \o <<", FeS, eutectic, and Fe + %.2f wt.%% (%.2f mol%%) S",
                                Format(FMul(wS, I(100)), 2), Format(FMul(x, I(100)), 2)>>
         /\ pc' = "l939"
         /\ UNCHANGED <<wS, out, pTrange>>

\* a slip that limits the mole fraction to 0.5 without a word and keeps the
\* mass fraction
SulfurContent_silent ==
    /\ pc = "l915"
    /\ Sulfur(FMin(mass2mol("S", wS).v, Lit(5, -1)))
    /\ UNCHANGED <<Mg0, Mg0_E, call, prev, th, evaluated, alloyX, err, shown>>
    /\ UNCHANGED <<mat, compsys, ox, figure, p_crv, Tl_crv, Ts_crv>>

\* lines 915-924 and 988-989: if wS > 0.: xS=mass2mol('S',wS) ..
SulfurContent ==
    /\ pc = "l915"
    /\ Sulfur(mass2mol("S", wS).v)
    /\ UNCHANGED <<Mg0, Mg0_E, call, prev, th, evaluated, alloyX, err, shown>>
    /\ UNCHANGED <<mat, compsys, ox, figure, p_crv, Tl_crv, Ts_crv>>

\* lines 939-940: the melting curve of pure FeS
IronSulfide ==
    /\ pc = "l939"
    /\ p_crv' = p_crv
    /\ Evaluate("Tliq_FeS", [i \in DOMAIN p_crv' |-> Tliq_FeS(p_crv'[i])], <<>>,
                "Tl_crv", "FeS", <<>>, "l980")
    /\ UNCHANGED title

\* lines 980-982 and 987: the eutectic temperature
Eutectic ==
    /\ pc = "l980"
    /\ p_crv' = p_crv
    /\ Evaluate("Teut", [i \in DOMAIN p_crv' |-> Teut(p_crv'[i])], <<>>,
                "Tl_crv", "Eutectic",
                IF FLt(xS, Lit(5, -1)) THEN <<>> ELSE <<0, 400, 1000, 6000>>,
                IF FLt(xS, Lit(5, -1)) THEN "l983" ELSE "l993")
    /\ UNCHANGED title

\* lines 983-987: the melting curves of the alloy, flat and steep gradient
Alloy ==
    /\ pc \in {"l983", "l985"}
    /\ p_crv' = p_crv
    /\ Evaluate("Tmalloy",
                [i \in DOMAIN p_crv' |-> Tmalloy(p_crv'[i], xS, IF pc = "l983" THEN "f" ELSE "s")],
                <<>>, "Tl_crv",
                IF pc = "l983" THEN "Alloy, flat Fe liq." ELSE "Alloy, steep Fe liq.",
                IF pc = "l983" THEN <<>> ELSE <<0, 400, 1000, 6000>>,
                IF pc = "l983" THEN "l985" ELSE "l993")
    /\ UNCHANGED title

\* lines 993-998: plt.axis(pTrange) .. plt.title(title); plt.show()
Finish ==
    /\ pc = "l993"
    /\ shown' = Append(shown, [title |-> title, curves |-> figure, axis |-> pTrange])
    /\ figure' = <<>>
    /\ pc' = "l1001"
    /\ UNCHANGED <<Mg0, Mg0_E, call, prev, th, evaluated, alloyX, err>>
    /\ UNCHANGED <<mat, compsys, ox, wS, xS, title, pTrange, p_crv, Tl_crv, Ts_crv, out>>

\* lines 1001-1034: the figure of the eutectic composition, for an alloy
\* with a sulfur mole fraction strictly between 0 and 0.5
ShowEutecticComposition(Xe_crv) ==
    /\ evaluated' = evaluated \cup {"Xeut"}
    /\ IF Raised(Xe_crv) = NoExc
       THEN /\ shown' = Append(shown, [title |-> <<"Eutectic composition for Fe-FeS">>,
                                       curves |-> Plot(<<>>, "", p_crv, Xe_crv),
                                       axis |-> <<0, 400, 5, 40>>])
            /\ pc' = "done" /\ err' = err
       ELSE pc' = "exit" /\ err' = Raised(Xe_crv) /\ UNCHANGED shown

EutecticComposition ==
    /\ pc = "l1001"
    /\ mat = 3 /\ FGt(xS, Zero) /\ FLt(xS, Lit(5, -1))
    /\ ShowEutecticComposition([i \in DOMAIN p_crv |-> FMul(I(100), Xeut(p_crv[i]))])
    /\ UNCHANGED <<Mg0, Mg0_E, call, prev, th, alloyX>>
    /\ UNCHANGED <<mat, compsys, ox, wS, xS, title, figure, pTrange, p_crv, Tl_crv, Ts_crv, out>>

\* line 1001 otherwise: the program ends
End ==
    /\ pc = "l1001"
    /\ ~(mat = 3 /\ FGt(xS, Zero) /\ FLt(xS, Lit(5, -1)))
    /\ Goto("done")
    /\ UNCHANGED <<mat, compsys, ox, wS, xS, title, figure, pTrange, p_crv, Tl_crv, Ts_crv, out>>

NextMain ==
    \/ SelectMaterial \/ Peridotite \/ Basalt \/ Iron \/ UnknownMaterial
    \/ Forsterite \/ Diopside \/ Pyrope \/ Periclase \/ CaPerovskite
    \/ SelectComposition \/ Terrestrial \/ Martian \/ CMAS \/ Chondritic \/ Other
    \/ EarthSolidus \/ MarsSolidus \/ CMASSolidus \/ ChondriticSolidus
    \/ FractionalLiquidus \/ InterpolatedSolidus \/ PlotLiquidus \/ PlotSolidus
    \/ BasaltBatch \/ BasaltFractional \/ BasaltSolidus
    \/ IronLiquidus \/ ReadSulfur \/ SulfurContent \/ IronSulfide \/ Eutectic \/ Alloy
    \/ Finish \/ EutecticComposition \/ End

SpecMain == Init /\ [][NextMain]_vars

(***************************************************************************)
(* A session of the notebook: cells that call Tsol_intp, one after the     *)
(* other, and then the cell of the main program                            *)
(***************************************************************************)
\* a cell calls Tsol_intp before the main program has been started
SessionCall == pc = "l546" /\ Call_Tsol_intp
\* the call returns to the cell
SessionReturn == pc = "l546" /\ Return
\* the main program is started when no call is under way (SelectMaterial)
NextSession == SessionCall \/ SessionReturn \/ NextMain

SpecSession == Init /\ [][NextSession]_vars

(***************************************************************************)
(* Properties                                                              *)
(***************************************************************************)
\* a and b differ by no more than float rounding can account for: a relative
\* difference of at most one part in a million
RelTol == Lit(1, -6)
Close(a, b) == IsNum(a) /\ IsNum(b) /\ FLe(FAbs(FSub(a, b)), FMul(RelTol, FAbs(b)))

\* a call of Tmalloy at the eutectic composition has just returned
AtEutectic == call.fn = "Tmalloy" /\ call.X = Xeut(call.p)

EarthTarget == call.fn = "Tsol_intp" /\ call.ox = ox_E

\* C2: Tsol_intp(p, ox_E) returns exactly Tsol_Earth(p) at every pressure; the
\* interpolation weight and the alkali correction are both 0.
C2_EarthTargetIsEarthSolidus ==
    EarthTarget =>
        /\ call.ret = Tsol_Earth(call.p)
        /\ Weight(IronRich(MgNumber(ox_E), MgNumber(ox_E)), MgNumber(ox_E), MgNumber(ox_E)) = Zero
        /\ AlkaliCorrection(ox_E) = Zero

\* Tsol_intp has returned for the Earth composition beyond the last segment
\* boundary of the terrestrial solidus
C2_Witness == EarthTarget /\ FGt(call.p, Lit(235, -1)) /\ IsNum(call.ret) /\ call.ret.m > 0

\* C6 as stated: whatever core functions have been called, every
\* module-level variable still has the value it had before the calls (the
\* names Mg0 and Mg0_E are unbound when the module has been loaded).
C6_ModuleStateUntouched == Mg0 = Unbound /\ Mg0_E = Unbound

\* a call of Tliqfo has just returned
ForsteriteCall == call.fn = "Tliqfo"

\* C7: beyond 14.64 GPa Tliqfo returns the constant 2557.6807, prints its
\* warning and raises nothing; up to 14.64 GPa it returns the value of the
\* cubic fit and prints nothing.
C7_ForsteriteClamp ==
    ForsteriteCall =>
        IF FGt(call.p, Lit(1464, -2))
        THEN /\ call.ret = Lit(25576807, -4)
             /\ out = <<"WARNING: p>14.64 GPa, Tliq (forsterite) assumed const.">>
             /\ call.exc = NoExc
        ELSE /\ call.ret = TliqfoFit(call.p)
             /\ out = <<>>
             /\ call.exc = NoExc

\* Tliqfo has returned for a pressure above the limit
C7_Witness == ForsteriteCall /\ FGt(call.p, Lit(1464, -2)) /\ Len(out) = 1

\* C8 as stated: the fit evaluated at p = 14.64 equals the constant 2557.6807
\* to the printed precision, so Tliqfo does not jump at p = 14.64.
C8_ConstIsBoundaryValue ==
    ForsteriteCall /\ call.p = Lit(1464, -2) =>
        FLe(FAbs(FSub(call.ret, Lit(25576807, -4))), Lit(5, -5))

\* a conversion of a fraction strictly between 0 and 1 has been followed by
\* the inverse conversion of its result, for the same element
RoundTrip ==
    /\ <<prev.fn, call.fn>> \in {<<"mass2mol", "mol2mass">>, <<"mol2mass", "mass2mol">>}
    /\ call.el = prev.el /\ call.xel = prev.ret
    /\ FGt(prev.xel, Zero) /\ FLt(prev.xel, I(1))

ConversionCall == call.fn \in {"mass2mol", "mol2mass"}

\* C4: for an element that is no key of the atomic-mass table, mass2mol and
\* mol2mass raise the NameError naming the element, whatever the fraction, and
\* return no number; for the keys O, Na, Mg, S, K and Fe they do not raise it.
C4_UnknownElementRaises ==
    ConversionCall =>
        IF call.el \in {"O", "Na", "Mg", "S", "K", "Fe"}
        THEN call.exc = NoExc \/ call.exc[1] # "NameError"
        ELSE /\ call.exc = <<"NameError", "Atomic mass for element ", call.el, " unavailable.">>
             /\ IsErr(call.ret)

\* a conversion has been asked for silicon, which the table does not hold
C4_Witness == ConversionCall /\ call.el = "Si" /\ call.exc # NoExc

\* C5 as stated: whatever the interleaving of two concurrent calls
\* Tsol_intp(p1, ox1) and Tsol_intp(p2, ox2), each call returns the value it
\* returns when it runs alone.
C5_ConcurrentCallsIndependent ==
    \A i \in DOMAIN th :
        th[i].pc = "done" => th[i].ret = Tsol_intp(th[i].p, th[i].ox).T

\* the labels of the curves of a figure
Labels(fig) == {fig[k].label : k \in DOMAIN fig}

\* the sulfur content just read has a mole fraction beyond 0.5
SulfurBeyondHalf ==
    pc = "l915" /\ FGt(wS, Zero) /\ FGt(mass2mol("S", wS).v, Lit(5, -1))

\* the warning of line 918 has been printed in an alloy run
Clamped == mat = 3 /\ \E k \in DOMAIN out : out[k][1] = SulfurWarning

\* C9: a sulfur content whose mole fraction exceeds 0.5 raises nothing: the
\* step that finds it sets xS to exactly 0.5, prints the warning with the
\* mole fraction found, sets wS to mol2mass('S', 0.5) and goes on to the FeS
\* curve; from then on the run never ends by an exception, and the figure it
\* shows holds the FeS and the eutectic curve.
C9_SulfurClamp ==
    /\ [][SulfurBeyondHalf =>
            /\ xS' = Lit(5, -1)
            /\ wS' = mol2mass("S", Lit(5, -1)).v
            /\ out' = out \o << <<SulfurWarning, Format(FMul(mass2mol("S", wS).v, I(100)), 2)>>,
                                <<SulfurNotice, Format(FMul(wS', I(100)), 2)>> >>
            /\ err' = NoExc /\ pc' = "l939"]_vars
    /\ [](Clamped =>
            /\ xS = Lit(5, -1) /\ err = NoExc /\ pc # "exit"
            /\ pc \in {"l1001", "done"} =>
                   Len(shown) = 1 /\ {"FeS", "Eutectic"} \subseteq Labels(shown[1].curves))

\* an alloy run has ended regularly after the warning, with the recomputed
\* mass fraction and with the FeS and the eutectic curve shown
C9_Witness ==
    /\ pc = "done" /\ Clamped /\ wS = mol2mass("S", Lit(5, -1)).v
    /\ {"FeS", "Eutectic"} \subseteq Labels(shown[1].curves)

\* C10: once the material typed is found to be none of 1, 2 and 3, the
\* program has ended with IOError("Unknown material."), no function has been
\* evaluated, no curve plotted and no figure shown.
C10_UnknownMaterial ==
    (mat \notin {1, 2, 3} /\ pc \notin {"l546", "l548"}) =>
        /\ pc = "exit" /\ err = <<"IOError", "Unknown material.">>
        /\ evaluated = {} /\ figure = <<>> /\ shown = <<>>

\* the material 4 has been typed and the program has ended
C10_Witness == mat = 4 /\ pc = "exit" /\ err # NoExc

\* the composition typed is none of 1 .. 5 and line 600 has been passed
UnknownComposition ==
    /\ mat = 1 /\ compsys \notin {1, 2, 3, 4, 5}
    /\ pc \notin {"l546", "l548", "l589", "l592", "l595", "l599", "l600"}

\* C11 as stated: once the composition typed is found to be none of 1, 2, 3,
\* 4 and 5, the program has ended with an error, and the interpolated
\* solidus of the composition "other" is never evaluated for it.
C11_UnknownCompositionFails ==
    UnknownComposition => pc = "exit" /\ err # NoExc /\ "Tsol_intp" \notin evaluated

\* a call of the evaluator fn at the pressure p has returned
Evaluated(fn, p) == call.fn = fn /\ call.p = p /\ call.exc = NoExc

\* C12 as stated: the terrestrial solidus is continuous at its two segment
\* boundaries: the value returned at 10 GPa is the limit of the segment below
\* 10 GPa, and the value returned at 23.5 GPa is the limit of the segment
\* below 23.5 GPa, up to rounding.
C12_EarthSolidusContinuous ==
    /\ Evaluated("Tsol_Earth", I(10)) => Close(Tsol_Earth_seg(1, call.p), call.ret)
    /\ Evaluated("Tsol_Earth", Lit(235, -1)) => Close(Tsol_Earth_seg(2, call.p), call.ret)

\* C13 as stated: the basalt solidus is continuous at its three breakpoints:
\* the value returned at 3 GPa is that of the plagioclase-field quartic, the
\* value returned at 26 GPa that of the garnet-field quadratic, and the value
\* returned at 30 GPa that of the blend between 26 and 30 GPa, up to rounding.
C13_BasaltSolidusContinuous ==
    /\ Evaluated("Tsol_bas", I(3)) => Close(Tsol_bas_seg(1, call.p), call.ret)
    /\ Evaluated("Tsol_bas", I(26)) => Close(Tsol_bas_seg(2, call.p), call.ret)
    /\ Evaluated("Tsol_bas", pgbu) => Close(Tsol_bas_seg(3, call.p), call.ret)

\* the blend (1-w)*Tliqpy(p) + w*Tliqpc(p) with w = p - 23
PeridotiteBlend(p) ==
    FAdd(FMul(FSub(I(1), FSub(p, I(23))), Tliqpy(p)), FMul(FSub(p, I(23)), Tliqpc(p)))

\* C14: beyond 13.244 GPa the peridotite liquidus is the pyrope curve up to
\* 23 GPa, the blend with the weight w = p - 23 between 23 and 24 GPa, and the
\* periclase curve from 24 GPa on; the weight stays in [0,1], and the blend
\* meets the pyrope curve at 23 GPa and the periclase curve at 24 GPa.
C14_PeridotiteBlend ==
    (call.fn = "Tliq_per" /\ call.exc = NoExc /\ FGt(call.p, pxfopy)) =>
        /\ FLe(call.p, I(23)) => call.ret = Tliqpy(call.p)
        /\ (FGt(call.p, I(23)) /\ FLt(call.p, I(24))) => call.ret = PeridotiteBlend(call.p)
        /\ FGe(call.p, I(24)) => call.ret = Tliqpc(call.p)
        /\ FGe(wpc(call.p), Zero) /\ FLe(wpc(call.p), I(1))
        /\ call.p \in {I(23), I(24)} => Close(PeridotiteBlend(call.p), call.ret)

\* a call inside the transition, the value lying strictly between the curves
C14_Witness ==
    /\ call.fn = "Tliq_per" /\ call.exc = NoExc
    /\ FGt(call.p, I(23)) /\ FLt(call.p, I(24))
    /\ FGt(call.ret, Tliqpy(call.p)) /\ FLt(call.ret, Tliqpc(call.p))

\* the liquidus phase curve of basalt whose field ends at the pressure p
PhaseBelow(p) ==
    IF p = I(1) THEN Tliqfo(p).T ELSE IF p = I(24) THEN Tliqpy(p) ELSE Tliqdi(p)

\* the transition pressures of the basalt liquidus
BasaltTransitions == {I(1), Lit(3728, -3), I(24)}

\* C15 as stated: the basalt liquidus has no jump at its transition pressures
\* 1, 3.728 and 24 GPa: the value returned there is that of the phase curve
\* of the field below, up to rounding.
C15_BasaltLiquidusNoJump ==
    (call.fn = "Tliq_bas" /\ call.exc = NoExc /\ call.p \in BasaltTransitions) =>
        Close(PhaseBelow(call.p), call.ret)

\* C15 as amended: the basalt liquidus switches hard between the phase curves:
\* it is the forsterite curve below 1 GPa, the diopside curve from 1 GPa to
\* below 3.728 GPa, the pyrope curve from 3.728 GPa to below 24 GPa and the
\* Ca-perovskite curve from 24 GPa on, unblended; at 1 GPa and at 24 GPa the
\* value returned is off the curve of the field below by more than 100 K.
C15_BasaltLiquidusSwitches ==
    (call.fn = "Tliq_bas" /\ call.exc = NoExc) =>
        /\ FLt(call.p, I(1)) => call.ret = Tliqfo(call.p).T
        /\ (FGe(call.p, I(1)) /\ FLt(call.p, Lit(3728, -3))) => call.ret = Tliqdi(call.p)
        /\ (FGe(call.p, Lit(3728, -3)) /\ FLt(call.p, I(24))) => call.ret = Tliqpy(call.p)
        /\ FGe(call.p, I(24)) => call.ret = TliqCapv(call.p)
        /\ call.p \in {I(1), I(24)} =>
               FGt(FAbs(FSub(call.ret, PhaseBelow(call.p))), I(100))

\* the basalt liquidus has been evaluated at the transition to Ca-perovskite
C15_Witness ==
    /\ call.fn = "Tliq_bas" /\ call.exc = NoExc /\ call.p = I(24)
    /\ call.ret = TliqCapv(call.p) /\ ~Close(Tliqpy(call.p), call.ret)

\* C16 as stated: the peridotite liquidus is the forsterite curve below
\* 13.244 GPa and the pyrope curve from 13.244 GPa up to 23 GPa; at 13.244 GPa
\* it is the pyrope value.
C16_PyropeFromBoundary ==
    (call.fn = "Tliq_per" /\ call.exc = NoExc) =>
        /\ FLt(call.p, pxfopy) => call.ret = Tliqfo(call.p).T
        /\ (FGe(call.p, pxfopy) /\ FLe(call.p, I(23))) => call.ret = Tliqpy(call.p)

\* C17: at 13.244 GPa the forsterite curve and the pyrope curve are less than
\* 1 K apart, and so the peridotite liquidus returned there is less than 1 K
\* off either curve.
C17_ForsteritePyropeAgree ==
    (call.fn \in {"Tliqfo", "Tliqpy", "Tliq_per"} /\ call.exc = NoExc
        /\ call.p = Lit(13244, -3)) =>
        /\ FLt(FAbs(FSub(call.ret, Tliqfo(call.p).T)), I(1))
        /\ FLt(FAbs(FSub(call.ret, Tliqpy(call.p))), I(1))

\* the peridotite liquidus has been evaluated at the boundary
C17_Witness ==
    /\ call.fn = "Tliq_per" /\ call.exc = NoExc /\ call.p = Lit(13244, -3)
    /\ call.ret \in {Tliqfo(call.p).T, Tliqpy(call.p)}

\* C18 as stated: at every pressure, in every gradient mode and for every
\* sulfur mole fraction in [0, 0.5], the alloy melting point returned is at
\* least Teut(p) (up to rounding), and at X = Xeut(p) both branch formulas
\* give Teut(p), so that the minimum over X lies at the eutectic.
C18_EutecticMinimum ==
    (call.fn = "Tmalloy" /\ call.exc = NoExc) =>
        /\ FGe(call.ret, Teut(call.p)) \/ Close(call.ret, Teut(call.p))
        /\ AtEutectic => Close(Tmalloy_FeS(call.p, call.X), Teut(call.p))

\* C19 as stated: no call of Tmalloy with p >= 0 and X in [0, 0.5] raises;
\* each returns a number.
C19_AlloyNeverRaises ==
    call.fn = "Tmalloy" => call.exc = NoExc /\ IsNum(call.ret)

\* the pressures at which the segments of the piecewise evaluators meet, in
\* rising order; low tells whether the pressure itself belongs to the segment
\* below it
Upper(x) == [at |-> x, low |-> FALSE]
Lower(x) == [at |-> x, low |-> TRUE]
Breakpoints ==
    [Tsol_Earth |-> <<Upper(I(10)), Upper(Lit(235, -1))>>,
     Tsol_CMAS |-> <<Upper(Lit(235, -1))>>,
     Tsol_Mars |-> <<Upper(I(23))>>,
     Tsol_chon |-> <<Upper(Lit(275, -1))>>,
     Tliq_per |-> <<Lower(Lit(13244, -3)), Lower(I(23)), Upper(I(24))>>,
     Tliqfo |-> <<Lower(Lit(1464, -2))>>,
     Tliqb_per |-> <<Upper(Lit(2276, -2))>>,
     Tsol_bas |-> <<Upper(I(3)), Upper(I(26)), Upper(I(30))>>,
     Tliq_bas |-> <<Upper(I(1)), Upper(Lit(3728, -3)), Upper(I(24))>>,
     Tliqb_bas |-> <<Upper(Lit(88, -2)), Upper(Lit(312, -2)), Upper(I(22))>>,
     Tliq_Fe |-> <<Lower(Lit(8044, -3)), Lower(Lit(8706, -2))>>]

\* the breakpoints of fn that the pressure p has passed
Passed(fn, p) ==
    {i \in DOMAIN Breakpoints[fn] :
        LET b == Breakpoints[fn][i]
        IN  IF b.low THEN FGt(p, b.at) ELSE FGe(p, b.at)}

\* a piecewise evaluator has been called (Tliq_Fe is piecewise in mode 'f')
PiecewiseCall ==
    /\ call.fn \in DOMAIN Breakpoints
    /\ call.fn = "Tliq_Fe" => call.mode = "f"

\* C20: in every piecewise evaluator the branch conditions partition the
\* pressure axis into segments ordered by pressure: at every pressure p >= 0
\* the branch taken is the one segment between the last breakpoint passed and
\* the next one, the breakpoints passed are the first ones, and the call
\* returns a value.
C20_BranchesPartition ==
    PiecewiseCall =>
        /\ Passed(call.fn, call.p) = 1 .. Cardinality(Passed(call.fn, call.p))
        /\ Branch(call.fn, call.p) = 1 + Cardinality(Passed(call.fn, call.p))
        /\ call.exc = NoExc /\ IsNum(call.ret)

\* the peridotite liquidus has been evaluated in its last segment
C20_Witness ==
    /\ PiecewiseCall /\ call.fn = "Tliq_per" /\ call.exc = NoExc
    /\ Branch(call.fn, call.p) = 4 /\ FGt(call.p, I(24))

\* a call of Tsol_intp has returned
InterpolationCall == call.fn = "Tsol_intp" /\ call.exc = NoExc

\* the target Mg# is strictly below the Earth's
BelowEarth(o) == FLt(MgNumber(o), MgNumber(ox_E))

\* the weight that C21 states for the composition o
StatedWeight(o) ==
    IF BelowEarth(o)
    THEN FDiv(FSub(MgNumber(ox_E), MgNumber(o)), FSub(MgNumber(ox_E), MgNumber(ox_M)))
    ELSE FDiv(FSub(MgNumber(o), MgNumber(ox_E)), FSub(I(1), MgNumber(ox_E)))

\* the secondary reference solidus with the alkali effect reduced to the Earth's
StatedReference(o, p) ==
    IF BelowEarth(o)
    THEN FSub(Tsol_Mars(p), FMul(dTsdNaK, FSub(FAdd(ox_M.Na2O, ox_M.K2O), xwNaK_E)))
    ELSE FAdd(Tsol_CMAS(p), FMul(dTsdNaK, xwNaK_E))

\* C21: Tsol_intp interpolates towards Mars exactly when the target Mg# is
\* strictly below the Earth's and towards CMAS otherwise, with the weight
\* (Mg#_E - Mg#)/(Mg#_E - Mg#_Mars) or (Mg# - Mg#_E)/(1 - Mg#_E); the weight is
\* 0 when Mg# is the Earth's and lies in [0,1] whenever Mg# is in
\* [Mg#_Mars, 1].
C21_SecondaryReference ==
    InterpolationCall =>
        /\ call.ret = Interpolate(Tsol_Earth(call.p), StatedWeight(call.ox),
                                  StatedReference(call.ox, call.p), call.ox)
        /\ MgNumber(call.ox) = MgNumber(ox_E) => StatedWeight(call.ox) = Zero
        /\ (FGe(MgNumber(call.ox), MgNumber(ox_M)) /\ FLe(MgNumber(call.ox), I(1))) =>
               FGe(StatedWeight(call.ox), Zero) /\ FLe(StatedWeight(call.ox), I(1))

\* Tsol_intp has returned for a composition strictly between Mars and the Earth
C21_Witness ==
    /\ InterpolationCall /\ BelowEarth(call.ox)
    /\ FGt(StatedWeight(call.ox), Zero) /\ FLt(StatedWeight(call.ox), I(1))

\* a equals the decimal number b when rounded to two decimals
TwoDecimals(a, b) == IsNum(a) /\ FLe(FAbs(FSub(a, b)), Lit(5, -3))

\* C22: Tsol_Earth(0) is 1358.81 K and Tsol_Earth(10) is 2173.15 K, each to
\* two decimals, and the value returned at 10 GPa is that of the segment from
\* 10 to 23.5 GPa.
C22_EarthSolidusValues ==
    /\ Evaluated("Tsol_Earth", Zero) => TwoDecimals(call.ret, Lit(135881, -2))
    /\ Evaluated("Tsol_Earth", I(10)) =>
           /\ TwoDecimals(call.ret, Lit(217315, -2))
           /\ call.ret = Tsol_Earth_seg(2, call.p)
           /\ call.ret # Tsol_Earth_seg(1, call.p)

\* the terrestrial solidus has been evaluated at 10 GPa
C22_Witness == Evaluated("Tsol_Earth", I(10)) /\ call.ret = Tsol_Earth_seg(2, I(10))

\* the closed form 0.925 * 8.444^(-0.373)
XeutClosedForm == FMul(Lit(925, -3), Pow(Lit(8444, -3), Lit(-373, -3)))

\* a equals the decimal number b when rounded to three decimals
ThreeDecimals(a, b) == IsNum(a) /\ FLe(FAbs(FSub(a, b)), Lit(5, -4))

\* C23 as stated: Xeut(0) is 0.925 * 8.444^(-0.373), which is about 0.372.
C23_EutecticAtZeroStated ==
    Evaluated("Xeut", Zero) =>
        Close(call.ret, XeutClosedForm) /\ ThreeDecimals(call.ret, Lit(372, -3))

\* C23: Xeut(0) is 0.925 * 8.444^(-0.373) up to rounding, and that value is
\* 0.417 to three decimals.
C23_EutecticAtZero ==
    Evaluated("Xeut", Zero) =>
        Close(call.ret, XeutClosedForm) /\ ThreeDecimals(call.ret, Lit(417, -3))

\* the eutectic composition has been evaluated at p = 0
C23_Witness == Evaluated("Xeut", Zero) /\ FGt(call.ret, Lit(4, -1))

\* C24: Tsol_CMAS is the cubic polynomial below 23.5 GPa and
\* Tsol_Earth(p) + 139.2162 from 23.5 GPa on, and at 23.5 GPa the value
\* returned is less than 0.01 K off the polynomial: the splice is continuous.
C24_CMASSplice ==
    (call.fn = "Tsol_CMAS" /\ call.exc = NoExc) =>
        /\ FLt(call.p, Lit(235, -1)) => call.ret = Tsol_CMAS_fit(call.p)
        /\ FGe(call.p, Lit(235, -1)) => call.ret = FAdd(Tsol_Earth(call.p), Lit(1392162, -4))
        /\ call.p = Lit(235, -1) =>
               FLt(FAbs(FSub(call.ret, Tsol_CMAS_fit(call.p))), Lit(1, -2))

\* the CMAS solidus has been evaluated at the splice
C24_Witness ==
    /\ Evaluated("Tsol_CMAS", Lit(235, -1))
    /\ call.ret = FAdd(Tsol_Earth(call.p), Lit(1392162, -4))

\* C25 as stated: the solidus of a natural composition does not jump at a
\* segment boundary; in particular the martian solidus returned at 23 GPa,
\* the value of the line 62.5p + 975, is the value of the cubic of the segment
\* below 23 GPa, up to rounding.
C25_MarsSolidusContinuous ==
    Evaluated("Tsol_Mars", I(23)) =>
        /\ call.ret = FAdd(FMul(Lit(625, -1), call.p), I(975))
        /\ Close(Tsol_Mars_fit(call.p), call.ret)

\* Tsol_intp has returned for the Mars reference composition
MarsTarget == InterpolationCall /\ call.ox = ox_M

\* Tsol_intp has returned for a composition with magnesium, but without iron
\* and alkalis
CMASTarget ==
    /\ InterpolationCall /\ FGt(call.ox.MgO, Zero)
    /\ call.ox.FeO = Zero /\ call.ox.Na2O = Zero /\ call.ox.K2O = Zero

\* C26 as stated: Tsol_intp(p, ox_M) equals Tsol_Mars(p), and Tsol_intp(p, ox)
\* for a composition without iron and alkalis equals Tsol_CMAS(p), at every
\* pressure.
C26_ReferencesExact ==
    /\ MarsTarget => call.ret = Tsol_Mars(call.p)
    /\ CMASTarget => call.ret = Tsol_CMAS(call.p)

\* C26: the weight of the secondary reference is exactly 1 for the Mars
\* reference composition and for a composition without iron and alkalis, and
\* the value returned equals Tsol_Mars(p) or Tsol_CMAS(p) up to the rounding of
\* the float operations (relative difference at most 1e-6).
C26_ReferencesWithinRounding ==
    /\ MarsTarget => StatedWeight(call.ox) = I(1) /\ Close(call.ret, Tsol_Mars(call.p))
    /\ CMASTarget => StatedWeight(call.ox) = I(1) /\ Close(call.ret, Tsol_CMAS(call.p))

\* a call for a reference composition whose result is not the reference
\* solidus itself
C26_Witness ==
    \/ MarsTarget /\ call.ret # Tsol_Mars(call.p)
    \/ CMASTarget /\ call.ret # Tsol_CMAS(call.p)

\* a call of Tmalloy for pure iron or for FeS
EndMember == call.fn = "Tmalloy" /\ call.X \in {Zero, Lit(5, -1)}

\* C27 as stated: at every pressure and in every mode Tmalloy(p, 0, mode) is
\* Tliq_Fe(p, mode) and Tmalloy(p, 0.5, mode) is Tliq_FeS(p), Xeut(p) lying
\* strictly between 0 and 0.5.
C27_EndMembers ==
    EndMember =>
        /\ call.exc = NoExc
        /\ FGt(Xeut(call.p), Zero) /\ FLt(Xeut(call.p), Lit(5, -1))
        /\ call.ret = (IF call.X = Zero THEN Tliq_Fe(call.p, call.mode) ELSE Tliq_FeS(call.p))

\* a composite liquidus has been evaluated
CompositeCall == call.fn \in {"Tliq_per", "Tliq_bas"}

\* C28: the composite curves hand to Tliqfo only pressures within its fit:
\* Tliq_per takes the forsterite branch only for p <= 13.244 and Tliq_bas
\* only for p < 1, so that neither of them prints the warning of Tliqfo or
\* returns its constant 2557.6807.
C28_ClampUnreachable ==
    CompositeCall =>
        /\ call.exc = NoExc /\ out = <<>>
        /\ call.ret # TliqfoConst
        /\ Branch(call.fn, call.p) = 1 =>
               /\ FLe(call.p, Lit(1464, -2))
               /\ call.ret = TliqfoFit(call.p)
               /\ IF call.fn = "Tliq_per" THEN FLe(call.p, Lit(13244, -3))
                                          ELSE FLt(call.p, I(1))

\* a composite curve has been evaluated beyond the range of the forsterite fit
C28_Witness == CompositeCall /\ FGt(call.p, Lit(1464, -2)) /\ out = <<>>

\* the main program is about to read the globals at line 735
ReadsGlobals == pc = "l735"

\* C29: in a single-threaded session, after a call of Tsol_intp has returned
\* the global Mg0 is the Mg# of the composition of that call and Mg0_E is the
\* Earth's Mg#, whatever calls came before; the main program reads the
\* globals only after it has called Tsol_intp, when they are those of its
\* composition; and the reference solidus it plots, the martian one or the
\* CMAS one, is the one that Tsol_intp used for that composition.
C29_GlobalsFollowCalls ==
    /\ InterpolationCall => Mg0 = MgNumber(call.ox) /\ Mg0_E = MgNumber(ox_E)
    /\ ReadsGlobals =>
           /\ "Tsol_intp" \in evaluated
           /\ Mg0 = MgNumber(ox) /\ Mg0_E = MgNumber(ox_E)
    /\ "mart. Solidus" \in Labels(figure) => BelowEarth(ox)
    /\ "CMAS Solidus" \in Labels(figure) => ~BelowEarth(ox)

\* the main program has plotted the martian solidus as the reference of an
\* iron-rich composition
C29_Witness ==
    /\ "mart. Solidus" \in Labels(figure) /\ "Tsol_intp" \in evaluated
    /\ Mg0 = MgNumber(ox) /\ BelowEarth(ox)

\* an alloy run in which no positive sulfur content has been read
NoSulfur == mat = 3 /\ ~FGt(wS, Zero)

\* C30 as stated: the main program evaluates Tmalloy only with a sulfur mole
\* fraction strictly between 0 and 0.5; without a positive sulfur content it
\* evaluates the curves of pure iron only and shows no figure of the eutectic
\* composition; after the limitation to 0.5 it evaluates the FeS curve and
\* the eutectic temperature, but neither Tmalloy nor the figure of the
\* eutectic composition.
C30_AlloySulfurInside ==
    /\ \A x \in alloyX : FGt(x, Zero) /\ FLt(x, Lit(5, -1))
    /\ NoSulfur => evaluated \subseteq {"Tliq_Fe"} /\ Len(shown) <= 1
    /\ Clamped =>
           /\ evaluated \subseteq {"Tliq_Fe", "Tliq_FeS", "Teut"}
           /\ Len(shown) <= 1
           /\ pc \in {"l1001", "done"} => {"Tliq_FeS", "Teut"} \subseteq evaluated

=============================================================================
